---------------------------- MODULE Spec2Model ----------------------------
(***************************************************************************)
(* A model of the WK image codec: the chunked container (format/chunk.rs,  *)
(* format/header.rs), the encoder and decoder facades (encoder.rs,         *)
(* decoder.rs) and the compression engine (compression/engine.rs with      *)
(* predictor.rs, entropy.rs, arithmetic_coder.rs).                         *)
(*                                                                         *)
(* Bytes are integers 0..255 and byte strings are sequences of them.  A    *)
(* u32 is kept as the integer it holds where the model's values are small  *)
(* (sizes, counts) and as four little-endian bytes where all 32 bits are   *)
(* used (the CRC).  A Result is a record with kind "Ok", "Err" or "Panic"; *)
(* "Panic" is an index out of bounds or a failed slice, which aborts the   *)
(* call without a Result.                                                  *)
(***************************************************************************)
EXTENDS Integers, Sequences, FiniteSets, TLC

VARIABLES
    pc,       \* the step the modelled caller is at
    enc,      \* WkEncoder.config (and the metadata it carries)
    img,      \* the raster given to the encoder or engine
    payload,  \* the engine's output, or the data handed to decompress
    stream,   \* the bytes written by ChunkWriter / read by ChunkReader
    res,      \* the Result of the last decode or decompress
    note      \* what the environment did to the data on its way to the reader

vars == <<pc, enc, img, payload, stream, res, note>>

---------------------------------------------------------------------------
(* Bounds of the model. *)

\* Largest raster width and height the engine specification draws.
MaxDim == 2
\* Largest number of raw bytes (width * height * channels) of a drawn raster.
MaxRaw == 4
\* Largest number of chunks a foreign writer puts into a stream.
MaxChunks == 4
\* Number of threads of the worker pool that runs the block closures.
MaxWorkers == 2

---------------------------------------------------------------------------
(* Bytes and little-endian integers. *)

Byte == 0..255

Min2(a, b) == IF a < b THEN a ELSE b
Max2(a, b) == IF a > b THEN a ELSE b

\* u32::to_le_bytes for a value below 2^31.
U32Le(n) == <<n % 256, (n \div 256) % 256, (n \div 65536) % 256, (n \div 16777216) % 256>>

\* u16::to_le_bytes
U16Le(n) == <<n % 256, (n \div 256) % 256>>

\* The top byte of a u32 read from the stream; values of 2^31 and more do not
\* fit the model's integers and are only ever sizes no stream can satisfy.
U32Huge(s, i) == s[i + 3] >= 128

\* u32::from_le_bytes of s[i..i+3], for a value below 2^31.
U32At(s, i) == s[i] + 256 * s[i + 1] + 65536 * s[i + 2] + 16777216 * s[i + 3]

\* A let binding that computes v once: F applied to the value of v.
With(v, F(_)) == CHOOSE out \in {F(x) : x \in {v}} : TRUE

\* s[from..to) of a Rust slice, with 0-based bounds, as a sequence.
Slice(s, from, to) == SubSeq(s, from + 1, to)

RECURSIVE Pow2(_)
Pow2(k) == IF k = 0 THEN 1 ELSE 2 * Pow2(k - 1)

\* The number of significant bits of n: 32 - n.leading_zeros().
RECURSIVE BitLen(_)
BitLen(n) == IF n = 0 THEN 0 ELSE 1 + BitLen(n \div 2)

\* v as i16 for a value that was computed in a wider type.
AsI16(v) == ((v + 32768) % 65536) - 32768

RECURSIVE XorBits(_, _)
XorBits(a, b) ==
    IF a = 0 THEN b
    ELSE IF b = 0 THEN a
    ELSE ((a + b) % 2) + 2 * XorBits(a \div 2, b \div 2)

XorNibble == [n \in 1..256 |-> XorBits((n - 1) \div 16, (n - 1) % 16)] \o <<>>

\* a ^ b on bytes
Xor8(a, b) ==
    XorNibble[(a \div 16) * 16 + (b \div 16) + 1] * 16 + XorNibble[(a % 16) * 16 + (b % 16) + 1]

---------------------------------------------------------------------------
(* CRC-32 (crc32fast::Hasher): reflected polynomial 0xEDB88320, initial    *)
(* value and final xor 0xFFFFFFFF.  A CRC value is <<b0, b1, b2, b3>>, its  *)
(* little-endian bytes, which is also how the chunk stores it.             *)

\* One bit of the table construction on the value <<hi16, lo16>>.
RECURSIVE CrcShift(_, _, _)
CrcShift(hi, lo, k) ==
    IF k = 0 THEN <<lo % 256, lo \div 256, hi % 256, hi \div 256>>
    ELSE LET nlo == (lo \div 2) + (hi % 2) * 32768
             nhi == hi \div 2
         IN IF lo % 2 = 1
            THEN CrcShift(Xor8(nhi \div 256, 237) * 256 + Xor8(nhi % 256, 184),
                          Xor8(nlo \div 256, 131) * 256 + Xor8(nlo % 256, 32), k - 1)
            ELSE CrcShift(nhi, nlo, k - 1)

CrcTable == [n \in 1..256 |-> CrcShift(0, n - 1, 8)] \o <<>>

CrcUpdate(c, b) ==
    LET t == CrcTable[Xor8(c[1], b) + 1]
    IN <<Xor8(t[1], c[2]), Xor8(t[2], c[3]), Xor8(t[3], c[4]), t[4]>>

\* Hasher::update over s[i..last], byte by byte in order; the bytes are
\* taken in spans of span, span / 8, ... bytes so that the evaluation stays
\* shallow.
RECURSIVE CrcSpan(_, _, _, _, _)
CrcSpan(c, s, i, last, span) ==
    IF i > last THEN c
    ELSE LET n == IF span = 1 THEN CrcUpdate(c, s[i])
                  ELSE CrcSpan(c, s, i, Min2(i + span - 1, last), span \div 8)
         IN IF n[1] >= 0 THEN CrcSpan(n, s, i + span, last, span) ELSE n

\* Hasher::update over s from its i-th byte on.
CrcBlocks(c, s, i) == CrcSpan(c, s, i, Len(s), 4096)

\* Hasher::finalize
CrcFinal(c) == <<255 - c[1], 255 - c[2], 255 - c[3], 255 - c[4]>>

---------------------------------------------------------------------------
(* format/chunk.rs *)

WK_MAGIC == <<87, 75, 51, 46, 48, 0, 0, 0>>

TagIHDR == <<73, 72, 68, 82>>
TagICCP == <<73, 67, 67, 80>>
TagEXIF == <<69, 88, 73, 70>>
TagXMP  == <<88, 77, 80, 0>>
TagTHUM == <<84, 72, 85, 77>>
TagANIM == <<65, 78, 73, 77>>
TagIDAT == <<73, 68, 65, 84>>
TagIDLS == <<73, 68, 76, 83>>
TagFRMD == <<70, 82, 77, 68>>
TagCUST == <<67, 85, 83, 84>>
TagIEND == <<73, 69, 78, 68>>

\* ChunkType::as_bytes: a chunk type is named by the variant's tag string.
ChunkTypes ==
    {"IHDR", "ICCP", "EXIF", "XMP", "THUM", "ANIM", "IDAT", "IDLS", "FRMD", "CUST", "IEND"}

as_bytes(t) ==
    CASE t = "IHDR" -> TagIHDR
      [] t = "ICCP" -> TagICCP
      [] t = "EXIF" -> TagEXIF
      [] t = "XMP"  -> TagXMP
      [] t = "THUM" -> TagTHUM
      [] t = "ANIM" -> TagANIM
      [] t = "IDAT" -> TagIDAT
      [] t = "IDLS" -> TagIDLS
      [] t = "FRMD" -> TagFRMD
      [] t = "CUST" -> TagCUST
      [] t = "IEND" -> TagIEND

\* ChunkType::from_bytes: the variant, or "?" for Err(InvalidChunk).
from_bytes(b) ==
    IF \E t \in ChunkTypes : as_bytes(t) = b
    THEN CHOOSE t \in ChunkTypes : as_bytes(t) = b
    ELSE "?"

\* Chunk::compute_crc
compute_crc(t, data) == CrcFinal(CrcBlocks(CrcBlocks(<<255, 255, 255, 255>>, as_bytes(t), 1), data, 1))

\* A Chunk::new whose checksum covers the payload alone.
ChunkNewCrcOfData(t, data) ==
    [chunk_type |-> t, data |-> data, crc |-> CrcFinal(CrcBlocks(<<255, 255, 255, 255>>, data, 1))]

\* Chunk::new
ChunkNew(t, data) == [chunk_type |-> t, data |-> data, crc |-> compute_crc(t, data)]

\* A verify_crc that accepts every stored checksum.
verify_crcAlways(c) == TRUE

\* Chunk::verify_crc
verify_crc(c) == compute_crc(c.chunk_type, c.data) = c.crc

\* ChunkWriter::write_chunk after the magic: type, size, data, crc.
ChunkBytes(c) == as_bytes(c.chunk_type) \o U32Le(Len(c.data)) \o c.data \o c.crc

---------------------------------------------------------------------------
(* format/header.rs *)

\* ColorType as u8: Grayscale, GrayscaleAlpha, Rgb, Rgba, Yuv420, Yuv444.
ColorTypes == 0..5

\* ColorType::channels
channels(ct) ==
    CASE ct = 0 -> 1
      [] ct = 1 -> 2
      [] ct = 3 -> 4
      [] OTHER -> 3

\* ColorType::has_alpha
has_alpha(ct) == ct \in {1, 3}

\* WkEncoder::image_to_raw: the color type of a raster with c channels.
ColorOfChannels(c) == c - 1

\* CompressionMode as u8.
ModeCode(m) == CASE m = "Lossless" -> 0 [] m = "Lossy" -> 1 [] m = "Mixed" -> 2

\* CompressionMode::from_u8, "?" for Err(InvalidFormat).
ModeOfCode(v) == CASE v = 0 -> "Lossless" [] v = 1 -> "Lossy" [] v = 2 -> "Mixed" [] OTHER -> "?"

\* WkHeader::encode
HeaderEncode(h) ==
    U32Le(h.width) \o U32Le(h.height)
    \o <<h.color_type, ModeCode(h.compression_mode), h.quality,
         (IF h.has_alpha THEN 1 ELSE 0) + (IF h.has_animation THEN 2 ELSE 0),
         h.bit_depth, 0, 0, 0>>

\* WkHeader::decode
HeaderDecode(d) ==
    IF Len(d) < 16 THEN [kind |-> "Err", err |-> "InvalidFormat"]
    ELSE IF d[9] \notin ColorTypes \/ ModeOfCode(d[10]) = "?"
    THEN [kind |-> "Err", err |-> "InvalidFormat"]
    ELSE [kind |-> "Ok",
          header |-> [width |-> U32At(d, 1), height |-> U32At(d, 5), color_type |-> d[9],
                      compression_mode |-> ModeOfCode(d[10]), quality |-> d[11],
                      has_alpha |-> (d[12] % 2 = 1), has_animation |-> ((d[12] \div 2) % 2 = 1),
                      bit_depth |-> d[13]]]

---------------------------------------------------------------------------
(* compression/predictor.rs *)

PredictorTypes == 0..4

\* paeth_predictor
paeth_predictor(a, b, c) ==
    LET p == a + b - c
        pa == IF p >= a THEN p - a ELSE a - p
        pb == IF p >= b THEN p - b ELSE b - p
        pc0 == IF p >= c THEN p - c ELSE c - p
    IN IF pa <= pb /\ pa <= pc0 THEN a ELSE IF pb <= pc0 THEN b ELSE c

\* The match on the predictor in apply_predictor, reverse_predictor,
\* select_optimal_predictor and apply_optimal_predictor.
Prediction(t, left, up, up_left) ==
    CASE t = 1 -> left
      [] t = 2 -> up
      [] t = 3 -> (left + up) \div 2
      [] t = 4 -> paeth_predictor(left, up, up_left)
      [] OTHER -> 0

\* A from_u8 that knows no predictor but None.
PredictorFromU8None(v) == 0

\* PredictorType::from_u8
PredictorFromU8(v) == IF v \in 1..4 THEN v ELSE 0

\* The neighbours of sample x of row y in d (0 outside the raster).
LeftOf(d, stride, ch, y, x) == IF x >= ch THEN d[y * stride + x - ch + 1] ELSE 0
UpOf(d, stride, y, x) == IF y > 0 THEN d[(y - 1) * stride + x + 1] ELSE 0
UpLeftOf(d, stride, ch, y, x) == IF x >= ch /\ y > 0 THEN d[(y - 1) * stride + x - ch + 1] ELSE 0

\* A difference that stops at 0 where wrapping_sub wraps.
DeltaSaturating(d, stride, ch, y, x, t) ==
    Max2(0, d[y * stride + x + 1]
              - Prediction(t, LeftOf(d, stride, ch, y, x), UpOf(d, stride, y, x),
                           UpLeftOf(d, stride, ch, y, x)))

\* raw.wrapping_sub(prediction) for sample x of row y under predictor t.
Delta(d, stride, ch, y, x, t) ==
    (d[y * stride + x + 1] + 256
       - Prediction(t, LeftOf(d, stride, ch, y, x), UpOf(d, stride, y, x),
                    UpLeftOf(d, stride, ch, y, x))) % 256

RECURSIVE RowScore(_, _, _, _, _, _)
RowScore(d, stride, ch, y, t, x) ==
    IF x >= stride THEN 0
    ELSE LET delta == Delta(d, stride, ch, y, x, t)
         IN (IF delta > 127 THEN 256 - delta ELSE delta) + RowScore(d, stride, ch, y, t, x + 1)

\* select_optimal_predictor: the first predictor of the least score.
select_optimal_predictor(d, stride, ch, y) ==
    CHOOSE t \in PredictorTypes :
        /\ \A u \in PredictorTypes : RowScore(d, stride, ch, y, t, 0) <= RowScore(d, stride, ch, y, u, 0)
        /\ \A u \in 0..(t - 1) : RowScore(d, stride, ch, y, u, 0) > RowScore(d, stride, ch, y, t, 0)

\* One filtered row: the tag, then the deltas.
FilteredRow(d, stride, ch, y, t) == <<t>> \o [x \in 1..stride |-> Delta(d, stride, ch, y, x - 1, t)]

RECURSIVE FilterRows(_, _, _, _, _)
FilterRows(d, stride, ch, height, y) ==
    IF y >= height THEN <<>>
    ELSE FilteredRow(d, stride, ch, y, select_optimal_predictor(d, stride, ch, y))
         \o FilterRows(d, stride, ch, height, y + 1)

\* apply_optimal_predictor
apply_optimal_predictor(d, width, height, ch) == FilterRows(d, width * ch, ch, height, 0)

RECURSIVE ApplyRows(_, _, _, _, _, _)
ApplyRows(d, stride, ch, height, t, y) ==
    IF y >= height THEN <<>>
    ELSE FilteredRow(d, stride, ch, y, t) \o ApplyRows(d, stride, ch, height, t, y + 1)

\* apply_predictor
apply_predictor(d, width, height, ch, t) == ApplyRows(d, width * ch, ch, height, t, 0)

\* The loop of reverse_predictor from sample k on (k counts samples, row-major);
\* out holds the samples rebuilt so far.
RECURSIVE ReverseFrom(_, _, _, _, _, _)
ReverseFrom(f, stride, ch, total, k, out) ==
    IF k >= total THEN out
    ELSE LET y == k \div stride
             x == k % stride
             t == PredictorFromU8(f[y * (stride + 1) + 1])
             delta == f[y * (stride + 1) + x + 2]
             v == (delta + Prediction(t, LeftOf(out, stride, ch, y, x), UpOf(out, stride, y, x),
                                      UpLeftOf(out, stride, ch, y, x))) % 256
         IN ReverseFrom(f, stride, ch, total, k + 1, Append(out, v))

\* reverse_predictor: filtered[in_idx] is read for every row tag and sample,
\* so a short input is an index out of bounds.
reverse_predictor(f, width, height, ch) ==
    IF Len(f) < height * (width * ch + 1)
    THEN [kind |-> "Panic", err |-> "index out of bounds", data |-> <<>>]
    ELSE [kind |-> "Ok", err |-> "",
          data |-> ReverseFrom(f, width * ch, ch, width * height * ch, 0, <<>>)]

---------------------------------------------------------------------------
(* compression/entropy.rs: the Huffman table.  A frequency table is a       *)
(* sequence of 256 counts (symbol s at index s + 1); a node is a record,    *)
(* symbol -1 standing for None; a code is its bits, first written first.    *)

\* HuffmanNode::leaf
HuffLeaf(s, f) == [symbol |-> s, freq |-> f]

\* HuffmanNode::internal
HuffInternal(l, r) == [symbol |-> -1, freq |-> l.freq + r.freq, left |-> l, right |-> r]

\* The count of b in data.
CountOf(data, b) == Cardinality({i \in 1..Len(data) : data[i] = b})

\* The freq array filled by encode_with_huffman.
FreqOf(data) ==
    LET present == {data[i] : i \in 1..Len(data)}
    IN [n \in 1..256 |-> IF (n - 1) \in present THEN CountOf(data, n - 1) ELSE 0] \o <<>>

\* The leaves HuffmanTable::build collects, in the order of their symbols.
LeavesOf(freq) ==
    LET syms == {n \in 1..256 : freq[n] > 0}
    IN [k \in 1..Cardinality(syms) |->
           LET n == CHOOSE n \in syms : Cardinality({m \in syms : m < n}) = k - 1
           IN HuffLeaf(n - 1, freq[n])] \o <<>>

\* One step of the stable sort by descending freq: x goes behind every node
\* already placed whose freq is not smaller.
InsertDesc(sorted, x) ==
    LET k == Cardinality({i \in 1..Len(sorted) : sorted[i].freq >= x.freq})
    IN SubSeq(sorted, 1, k) \o <<x>> \o SubSeq(sorted, k + 1, Len(sorted))

RECURSIVE SortDescFrom(_, _, _)
SortDescFrom(nodes, i, sorted) ==
    IF i > Len(nodes) THEN sorted
    ELSE SortDescFrom(nodes, i + 1, InsertDesc(sorted, nodes[i]))

\* nodes.sort_by(|a, b| b.freq.cmp(&a.freq))
SortDesc(nodes) == SortDescFrom(nodes, 1, <<>>)

\* The while loop of HuffmanTable::build.
RECURSIVE MergeNodes(_)
MergeNodes(nodes) ==
    IF Len(nodes) <= 1 THEN nodes[1]
    ELSE LET s == SortDesc(nodes)
             n == Len(s)
         IN MergeNodes(SubSeq(s, 1, n - 2) \o <<HuffInternal(s[n - 1], s[n])>>)

\* HuffmanTable::build_codes: the set of <<symbol, code>>.
RECURSIVE build_codes(_, _)
build_codes(node, bits) ==
    IF node.symbol >= 0 THEN {<<node.symbol, IF bits = <<>> THEN <<0>> ELSE bits>>}
    ELSE build_codes(node.left, Append(bits, 0)) \cup build_codes(node.right, Append(bits, 1))

\* HuffmanTable::build: has_tree is decode_tree.is_some().
HuffmanBuild(freq) ==
    LET leaves == LeavesOf(freq)
    IN IF leaves = <<>> THEN [has_tree |-> FALSE, codes |-> {}]
       ELSE LET root == MergeNodes(leaves)
            IN [has_tree |-> TRUE, tree |-> root, codes |-> build_codes(root, <<>>)]

\* HuffmanTable::get
CodeOf(table, b) == (CHOOSE c \in table.codes : c[1] = b)[2]

---------------------------------------------------------------------------
(* compression/entropy.rs: EntropyEncoder.  bit_buffer is the sequence of   *)
(* the bits shifted into the u32, oldest first, cut to its 32 low bits.     *)

BitBufferWidth == 32

Keep32(bits) ==
    IF Len(bits) > BitBufferWidth THEN SubSeq(bits, Len(bits) - BitBufferWidth + 1, Len(bits)) ELSE bits

\* Bit j (0 the lowest) of the bit buffer.
BitOf(buf, j) == IF j < Len(buf) THEN buf[Len(buf) - j] ELSE 0

\* (bit_buffer >> shift) as u8
ByteShr(buf, shift) ==
    BitOf(buf, shift) + 2 * BitOf(buf, shift + 1) + 4 * BitOf(buf, shift + 2)
    + 8 * BitOf(buf, shift + 3) + 16 * BitOf(buf, shift + 4) + 32 * BitOf(buf, shift + 5)
    + 64 * BitOf(buf, shift + 6) + 128 * BitOf(buf, shift + 7)

\* The while loop of write_bits.
RECURSIVE DrainBytes(_)
DrainBytes(e) ==
    IF e.bit_count < 8 THEN e
    ELSE DrainBytes([e EXCEPT !.bit_count = e.bit_count - 8,
                              !.buffer = Append(e.buffer, ByteShr(e.bit_buffer, e.bit_count - 8))])

\* EntropyEncoder::write_bits
write_bits(e, code) ==
    DrainBytes([e EXCEPT !.bit_buffer = Keep32(e.bit_buffer \o code),
                         !.bit_count = e.bit_count + Len(code)])

\* EntropyEncoder::flush: (bit_buffer << (8 - bit_count)) as u8
flush(e) ==
    IF e.bit_count > 0
    THEN [buffer |-> Append(e.buffer,
                            (ByteShr([j \in 1..8 |-> 0] \o e.bit_buffer \o [j \in 1..(8 - e.bit_count) |-> 0], 0))),
          bit_buffer |-> <<>>, bit_count |-> 0]
    ELSE e

RECURSIVE EncodeFrom(_, _, _, _)
EncodeFrom(e, table, data, i) ==
    IF i > Len(data) THEN e
    ELSE EncodeFrom(write_bits(e, CodeOf(table, data[i])), table, data, i + 1)

\* The frequency table as encode_with_huffman writes it.
FreqBytes(freq) == [k \in 1..1024 |-> U32Le(freq[((k - 1) \div 4) + 1])[((k - 1) % 4) + 1]] \o <<>>

\* EntropyEncoder::encode_with_huffman
encode_with_huffman(data) ==
    LET freq == FreqOf(data)
        table == HuffmanBuild(freq)
        e == flush(EncodeFrom([buffer |-> <<>>, bit_buffer |-> <<>>, bit_count |-> 0], table, data, 1))
    IN FreqBytes(freq) \o U32Le(Len(data)) \o U32Le(Len(e.buffer)) \o e.buffer

---------------------------------------------------------------------------
(* compression/entropy.rs: EntropyDecoder *)

Ok(d) == [kind |-> "Ok", err |-> "", data |-> d]
Err(e) == [kind |-> "Err", err |-> e, data |-> <<>>]
Panic(e) == [kind |-> "Panic", err |-> e, data |-> <<>>]

\* The frequency table read back by decode_huffman.
FreqParse(data) == [n \in 1..256 |-> U32At(data, 4 * (n - 1) + 1)] \o <<>>

\* (byte >> bit_pos) & 1 for the i-th bit (from 0) of the compressed bytes,
\* the highest bit of a byte first.
StreamBit(compressed, i) == (compressed[(i \div 8) + 1] \div Pow2(7 - (i % 8))) % 2

\* The 'outer loop of decode_huffman from bit i on.
RECURSIVE WalkBits(_, _, _, _, _, _)
WalkBits(root, compressed, original_len, i, current, output) ==
    IF i >= 8 * Len(compressed) THEN output
    ELSE LET bit == StreamBit(compressed, i)
             nxt == IF current.symbol >= 0 THEN current
                    ELSE IF bit = 0 THEN current.left ELSE current.right
         IN IF nxt.symbol >= 0
            THEN IF Len(output) + 1 >= original_len
                 THEN Append(output, nxt.symbol)
                 ELSE WalkBits(root, compressed, original_len, i + 1, root, Append(output, nxt.symbol))
            ELSE WalkBits(root, compressed, original_len, i + 1, nxt, output)

\* EntropyDecoder::decode_huffman
decode_huffman(data) ==
    IF Len(data) < 1024 + 8 THEN Err("DecodingError")
    ELSE IF U32Huge(data, 1029) THEN Err("DecodingError")
    ELSE LET original_len == U32At(data, 1025)
             compressed_len == U32At(data, 1029)
             pos == 1032
         IN IF pos + compressed_len > Len(data) THEN Err("DecodingError")
            ELSE LET table == HuffmanBuild(FreqParse(data))
                 IN IF ~table.has_tree THEN Ok(<<>>)
                    ELSE Ok(WalkBits(table.tree, Slice(data, pos, pos + compressed_len),
                                     original_len, 0, table.tree, <<>>))

---------------------------------------------------------------------------
(* compression/engine.rs: the lossless path *)

\* CompressionEngine::compress_lossless
compress_lossless(data, width, height, ch) ==
    encode_with_huffman(apply_optimal_predictor(data, width, height, ch))

\* CompressionEngine::decompress_lossless
decompress_lossless(data, width, height, ch) ==
    LET filtered == decode_huffman(data)
    IN IF filtered.kind # "Ok" THEN filtered
       ELSE reverse_predictor(filtered.data, width, height, ch)

---------------------------------------------------------------------------
(* compression/arithmetic_coder.rs: BitWriter, BitReader and the block      *)
(* coder.  A BitWriter is the sequence of the bits written so far; a        *)
(* BitReader is the bytes and the count of bits already read.               *)

\* BitWriter::write_bits: the count low bits of value, the highest first.
BitsOf(value, count) == [i \in 1..count |-> (value \div Pow2(count - i)) % 2]

\* A write_exp_golomb that leaves the zeros out.
ExpGolombBitsNoZeros(val) == BitsOf(val + 1, BitLen(val + 1))

\* BitWriter::write_exp_golomb
ExpGolombBits(val) ==
    IF val = 0 THEN <<1>>
    ELSE LET bits == BitLen(val + 1)
         IN [i \in 1..(bits - 1) |-> 0] \o BitsOf(val + 1, bits)

\* BitWriter::finish: whole bytes, the last one padded with zero bits.
BitWriterFinish(bits) ==
    [k \in 1..((Len(bits) + 7) \div 8) |->
        LET b(j) == IF 8 * (k - 1) + j <= Len(bits) THEN bits[8 * (k - 1) + j] ELSE 0
        IN 128 * b(1) + 64 * b(2) + 32 * b(3) + 16 * b(4) + 8 * b(5) + 4 * b(6) + 2 * b(7) + b(8)]

Abs(v) == IF v < 0 THEN -v ELSE v

\* The index (from 0) of the last non-zero coefficient, 0 if there is none.
LastNz(coeffs, n) ==
    LET nz == {i \in 0..(n - 1) : coeffs[i + 1] # 0}
    IN IF nz = {} THEN 0 ELSE CHOOSE i \in nz : \A j \in nz : j <= i

\* The while loop of encode_block from coefficient i on.
RECURSIVE EncodeRuns(_, _, _)
EncodeRuns(coeffs, last_nz, i) ==
    IF i > last_nz THEN <<>>
    ELSE IF coeffs[i + 1] = 0
    THEN LET stop == CHOOSE k \in i..last_nz :
                         coeffs[k + 1] # 0 /\ \A j \in i..(k - 1) : coeffs[j + 1] = 0
             run == Min2(stop - i, 32)
         IN <<0>> \o ExpGolombBits(run - 1) \o EncodeRuns(coeffs, last_nz, i + run)
    ELSE <<1>> \o ExpGolombBits(Abs(coeffs[i + 1]) - 1)
         \o <<IF coeffs[i + 1] < 0 THEN 1 ELSE 0>> \o EncodeRuns(coeffs, last_nz, i + 1)

\* encode_block
encode_block(coeffs) ==
    LET n == Min2(Len(coeffs), 64)
        last_nz == LastNz(coeffs, n)
    IN IF \A i \in 1..n : coeffs[i] = 0
       THEN BitWriterFinish(BitsOf(0, 6) \o <<1>>)
       ELSE BitWriterFinish(BitsOf(last_nz + 1, 6) \o <<0>> \o EncodeRuns(coeffs, last_nz, 0))

\* BitReader::read_bit at bit position p: false once the bytes are used up.
ReadBit(bytes, p) == IF p \div 8 >= Len(bytes) THEN 0 ELSE StreamBit(bytes, p)

\* BitReader::read_bits
RECURSIVE ReadBits(_, _, _)
ReadBits(bytes, p, count) ==
    IF count = 0 THEN 0
    ELSE 2 * ReadBits(bytes, p, count - 1) + ReadBit(bytes, p + count - 1)

\* The zeros counted by read_exp_golomb from p on, at most 17.
RECURSIVE LeadingZeros(_, _, _)
LeadingZeros(bytes, p, zeros) ==
    IF ReadBit(bytes, p) = 1 \/ zeros > 16 THEN zeros
    ELSE LeadingZeros(bytes, p + 1, zeros + 1)

\* BitReader::read_exp_golomb: <<value, position after it>>.
read_exp_golomb(bytes, p) ==
    LET zeros == LeadingZeros(bytes, p, 0)
    IN IF zeros > 16 THEN <<0, p + 17>>
       ELSE IF zeros = 0 THEN <<0, p + 1>>
       ELSE <<Pow2(zeros) + ReadBits(bytes, p + zeros + 1, zeros) - 1, p + 2 * zeros + 1>>

\* The while loop of decode_block from coefficient i on.
RECURSIVE DecodeRuns(_, _, _, _, _, _)
DecodeRuns(bytes, p, last_nz, n, i, coeffs) ==
    IF ~(i <= last_nz /\ i < n) THEN coeffs
    ELSE IF ReadBit(bytes, p) = 0
    THEN LET g == read_exp_golomb(bytes, p + 1)
         IN DecodeRuns(bytes, g[2], last_nz, n, i + Min2(g[1] + 1, last_nz + 1 - i), coeffs)
    ELSE LET g == read_exp_golomb(bytes, p + 1)
             abs_val == AsI16(g[1] + 1)
             sign == ReadBit(bytes, g[2])
         IN DecodeRuns(bytes, g[2] + 1, last_nz, n, i + 1,
                       [coeffs EXCEPT ![i + 1] = IF sign = 1 THEN AsI16(-abs_val) ELSE abs_val])

\* decode_block
decode_block(bytes, size) ==
    LET count == ReadBits(bytes, 0, 6)
        is_zero == ReadBit(bytes, 6)
        zero == [i \in 1..size |-> 0]
    IN IF count = 0 /\ is_zero = 1 THEN zero
       ELSE DecodeRuns(bytes, 7, Max2(count, 1) - 1, Min2(size, 64), 0, zero)

\* encode_coefficients on a byte-aligned writer: a 16-bit length, then the block.
encode_coefficients(coeffs) ==
    LET block_data == encode_block(coeffs)
    IN <<(Len(block_data) \div 256) % 256, Len(block_data) % 256>> \o block_data

\* A byte of the reader's input, 0 past its end (read_bits(8) there).
ByteOr0(bytes, i) == IF i < Len(bytes) THEN bytes[i + 1] ELSE 0

\* decode_coefficients for `blocks` blocks in a row, the reader at byte pos.
RECURSIVE decode_coefficients(_, _, _)
decode_coefficients(bytes, pos, blocks) ==
    IF blocks = 0 THEN <<>>
    ELSE LET block_len == 256 * ByteOr0(bytes, pos) + ByteOr0(bytes, pos + 1)
             block_data == [k \in 1..block_len |-> ByteOr0(bytes, pos + 1 + k)]
         IN <<decode_block(block_data, 64)>> \o decode_coefficients(bytes, pos + 2 + block_len, blocks - 1)

---------------------------------------------------------------------------
(* compression/arithmetic_coder.rs: compress_coefficients and               *)
(* decompress_coefficients.  The zlib stream (flate2) is modelled by a      *)
(* stream of the same format holding one stored block: the two header       *)
(* bytes, the block header with the length and its complement, the bytes,   *)
(* and the Adler-32 of the bytes, big-endian.                               *)

\* The sums <<a, b>> of Adler-32 after d[i..last], byte by byte in order,
\* in spans as CrcSpan.
RECURSIVE AdlerSpan(_, _, _, _, _)
AdlerSpan(ab, d, i, last, span) ==
    IF i > last THEN ab
    ELSE LET n == IF span = 1 THEN <<(ab[1] + d[i]) % 65521, (ab[2] + ab[1] + d[i]) % 65521>>
                  ELSE AdlerSpan(ab, d, i, Min2(i + span - 1, last), span \div 8)
         IN IF n[1] >= 0 THEN AdlerSpan(n, d, i + span, last, span) ELSE n

AdlerBlocks(ab, d, i) == AdlerSpan(ab, d, i, Len(d), 4096)

Adler32(d) ==
    LET ab == AdlerBlocks(<<1, 0>>, d, 1)
    IN <<ab[2] \div 256, ab[2] % 256, ab[1] \div 256, ab[1] % 256>>

ZlibHeader == <<120, 218>>

\* compress_coefficients: ZlibEncoder::write_all and finish.
compress_coefficients(d) ==
    ZlibHeader \o <<1>> \o U16Le(Len(d)) \o U16Le(65535 - Len(d)) \o d \o Adler32(d)

\* decompress_coefficients: read_to_end with its error dropped, so what was
\* inflated before the failure is what the caller gets.
decompress_coefficients(z) ==
    IF Len(z) < 7 THEN <<>>
    ELSE IF SubSeq(z, 1, 2) # ZlibHeader \/ z[3] # 1 THEN <<>>
    ELSE LET n == z[4] + 256 * z[5]
         IN IF z[6] + 256 * z[7] # 65535 - n THEN <<>>
            ELSE SubSeq(z, 8, Min2(7 + n, Len(z)))

\* Whether ZlibDecoder reports an error on z (the error the caller drops).
InflateFails(z) ==
    \/ Len(z) < 7
    \/ SubSeq(z, 1, 2) # ZlibHeader \/ z[3] # 1
    \/ z[6] + 256 * z[7] # 65535 - (z[4] + 256 * z[5])
    \/ Len(z) < 7 + (z[4] + 256 * z[5]) + 4
    \/ SubSeq(z, 8 + (z[4] + 256 * z[5]), 11 + (z[4] + 256 * z[5])) # Adler32(SubSeq(z, 8, 7 + (z[4] + 256 * z[5])))

---------------------------------------------------------------------------
(* compression/adaptive_quant.rs and compression/quantizer.rs: the tables *)

JPEG_LUMA ==
    <<16, 11, 10, 16, 24, 40, 51, 61, 12, 12, 14, 19, 26, 58, 60, 55,
      14, 13, 16, 24, 40, 57, 69, 56, 14, 17, 22, 29, 51, 87, 80, 62,
      18, 22, 37, 56, 68, 109, 103, 77, 24, 35, 55, 64, 81, 104, 113, 92,
      49, 64, 78, 87, 103, 121, 120, 101, 72, 92, 95, 98, 112, 100, 103, 99>>

JPEG_CHROMA ==
    <<17, 18, 24, 47, 99, 99, 99, 99, 18, 21, 26, 66, 99, 99, 99, 99,
      24, 26, 56, 99, 99, 99, 99, 99, 47, 66, 99, 99, 99, 99, 99, 99,
      99, 99, 99, 99, 99, 99, 99, 99, 99, 99, 99, 99, 99, 99, 99, 99,
      99, 99, 99, 99, 99, 99, 99, 99, 99, 99, 99, 99, 99, 99, 99, 99>>

\* CSF_WEIGHTS in hundredths.
CSF_WEIGHTS ==
    <<100, 98, 93, 85, 75, 63, 52, 42, 98, 95, 88, 78, 67, 55, 45, 36,
      93, 88, 80, 70, 59, 48, 39, 31, 85, 78, 70, 60, 50, 41, 33, 26,
      75, 67, 59, 50, 42, 34, 27, 22, 63, 55, 48, 41, 34, 28, 22, 18,
      52, 45, 39, 33, 27, 22, 18, 14, 42, 36, 31, 26, 22, 18, 14, 11>>

Clamp(v, lo, hi) == IF v < lo THEN lo ELSE IF v > hi THEN hi ELSE v

\* scale = if q < 50 { 5000 / q } else { 200 - q * 2 }
QualityScale(quality) ==
    LET q == Clamp(quality, 1, 100) IN IF q < 50 THEN 5000 \div q ELSE 200 - q * 2

\* QuantTable::for_quality
for_quality(quality, is_chroma) ==
    LET base == IF is_chroma THEN JPEG_CHROMA ELSE JPEG_LUMA
    IN [i \in 1..64 |-> Clamp((base[i] * QualityScale(quality) + 50) \div 100, 1, 255)]

\* (base[i] as f32 * csf_factor) as u32 with csf_factor = 1.0 + (1.0 - w) * 0.5:
\* base * (300 - w) / 200 in hundredths, which is the value the f32 product
\* truncates to for every entry of the two base tables.
CsfAdjusted(base, i) == (base[i] * (300 - CSF_WEIGHTS[i])) \div 200

\* QuantTable::with_csf
with_csf(quality, is_chroma) ==
    LET base == IF is_chroma THEN JPEG_CHROMA ELSE JPEG_LUMA
    IN [i \in 1..64 |-> Clamp((CsfAdjusted(base, i) * QualityScale(quality) + 50) \div 100, 1, 255)]

\* QuantTable::aggressive, whose body the sources do not hold: the
\* CSF-weighted table the encoder puts into the preamble.
aggressive(quality, is_chroma) == with_csf(quality, is_chroma)

\* AdaptiveQuantizer::get_table
get_table(qp, is_chroma) ==
    IF qp < 10 \/ qp > 98 THEN for_quality(qp, is_chroma) ELSE with_csf(qp, is_chroma)

\* QuantizationTable::for_quality (quantizer.rs), over the same base tables.
QuantizationTableForQuality(quality, is_chroma) == for_quality(quality, is_chroma)

\* for &v in &table { output.extend(&v.to_le_bytes()) }
TableBytes(t) == [k \in 1..128 |-> U16Le(t[((k - 1) \div 2) + 1])[((k - 1) % 2) + 1]]

\* u16::from_le_bytes over 64 entries of data starting at offset off.
TableParse(data, off) == [i \in 1..64 |-> data[off + 2 * (i - 1) + 1] + 256 * data[off + 2 * (i - 1) + 2]]

---------------------------------------------------------------------------
(* compression/entropy.rs: the run-length layer over the Huffman coder *)

\* The while loop of encode_rle_huffman from element i (from 1) on.  The
\* high byte is (magnitude >> 8) | (sign << 7): bit 7 is set by the sign or
\* by the magnitude 32768 itself.
RECURSIVE RleFrom(_, _)
RleFrom(data, i) ==
    IF i > Len(data) THEN <<>>
    ELSE IF data[i] = 0
    THEN LET zeros == {k \in i..Len(data) : \A j \in i..k : data[j] = 0}
             count == Min2(Cardinality(zeros), 255)
         IN <<0, count>> \o RleFrom(data, i + count)
    ELSE LET magnitude == Abs(data[i])
             sign == IF data[i] < 0 THEN 1 ELSE 0
         IN IF magnitude <= 127
            THEN <<1, magnitude + 128 * sign>> \o RleFrom(data, i + 1)
            ELSE <<2, magnitude % 256, ((magnitude \div 256) % 128) + 128 * Max2(sign, magnitude \div 32768)>>
                     \o RleFrom(data, i + 1)

\* EntropyEncoder::encode_rle_huffman
encode_rle_huffman(data) == encode_with_huffman(RleFrom(data, 1))

\* The while loop of decode_rle_huffman from element i (from 0) on.
RECURSIVE UnRleFrom(_, _)
UnRleFrom(rle, i) ==
    IF i >= Len(rle) THEN <<>>
    ELSE IF rle[i + 1] = 0
    THEN IF i + 1 >= Len(rle) THEN <<>>
         ELSE [k \in 1..rle[i + 2] |-> 0] \o UnRleFrom(rle, i + 2)
    ELSE IF rle[i + 1] = 1
    THEN IF i + 1 >= Len(rle) THEN <<>>
         ELSE LET b == rle[i + 2]
              IN <<IF b >= 128 THEN -(b % 128) ELSE b>> \o UnRleFrom(rle, i + 2)
    ELSE IF rle[i + 1] = 2
    THEN IF i + 2 >= Len(rle) THEN <<>>
         ELSE LET magnitude == rle[i + 2] + 256 * (rle[i + 3] % 128)
              IN <<IF rle[i + 3] >= 128 THEN -magnitude ELSE magnitude>> \o UnRleFrom(rle, i + 3)
    ELSE UnRleFrom(rle, i + 1)

\* EntropyDecoder::decode_rle_huffman
decode_rle_huffman(data) ==
    LET rle == decode_huffman(data)
    IN IF rle.kind # "Ok" THEN rle ELSE Ok(UnRleFrom(rle.data, 0))

---------------------------------------------------------------------------
(* compression/dct.rs, compression/intra_prediction.rs: the transform       *)
(* stage.  The rasters given to the lossy paths are of one 8x8 block per    *)
(* channel (width, height <= 8), so every block is the block (0, 0), whose  *)
(* neighbours are all 128.  The DCT is computed in floating point; the      *)
(* model holds its value on the zero block, which is what a mid-grey        *)
(* raster (every sample 128) has as residual.                               *)

ZeroBlock == [i \in 1..64 |-> 0]

ZIGZAG_ORDER ==
    <<0, 1, 8, 16, 9, 2, 3, 10, 17, 24, 32, 25, 18, 11, 4, 5,
      12, 19, 26, 33, 40, 48, 41, 34, 27, 20, 13, 6, 7, 14, 21, 28,
      35, 42, 49, 56, 57, 50, 43, 36, 29, 22, 15, 23, 30, 37, 44, 51,
      58, 59, 52, 45, 38, 31, 39, 46, 53, 60, 61, 54, 47, 55, 62, 63>>

\* zigzag_scan
zigzag_scan(block) == [i \in 1..64 |-> block[ZIGZAG_ORDER[i] + 1]]

\* An unscan that scans once more.
zigzag_rescan(scanned) == zigzag_scan(scanned)

\* The last place of ZIGZAG_ORDER that names idx, 0 if none does.
LastPlaceOf(idx) ==
    With({i \in 1..64 : ZIGZAG_ORDER[i] = idx},
         LAMBDA places : IF places = {} THEN 0 ELSE CHOOSE i \in places : \A j \in places : j <= i)

\* zigzag_unscan: output starts as zeros and output[ZIGZAG_ORDER[i]] is
\* written for i = 0, 1, ..., so the last write stays.
zigzag_unscan(scanned) ==
    [idx \in 1..64 |-> IF LastPlaceOf(idx - 1) = 0 THEN 0 ELSE scanned[LastPlaceOf(idx - 1)]]

\* dct_8x8 (dct_8x8_fast, dct_8x8_simd) on a block of one value c, the zero
\* residual among them: the sum for u = v = 0 is 64c and the DC coefficient
\* 0.25 * alpha(0) * alpha(0) * 64c rounds to 8c; the cosines of every other
\* (u, v) cancel to within 1e-12, which rounds to 0.
dct_8x8(block) ==
    CASE \A i \in 1..64 : block[i] = block[1] -> [i \in 1..64 |-> IF i = 1 THEN 8 * block[1] ELSE 0]

\* idct_8x8 (idct_8x8_fast, idct_8x8_simd) on coefficients that are zero
\* but for the DC one, D: every sample is 0.25 * alpha(0) * alpha(0) * D,
\* D / 8 to within 1e-13, rounded to the nearest integer.  A D of 4 modulo
\* 8 is left out: the product falls on one side of the half with the alpha
\* of dct.rs and on the other with the one of simd.rs.
idct_8x8(coeffs) ==
    CASE (\A i \in 2..64 : coeffs[i] = 0) /\ coeffs[1] % 8 # 4 ->
             [i \in 1..64 |-> IF coeffs[1] >= 0 THEN (coeffs[1] + 4) \div 8 ELSE -((4 - coeffs[1]) \div 8)]

\* a / b of Rust's integers: the quotient rounded towards zero.
TruncDiv(a, b) == IF a >= 0 THEN a \div b ELSE -((-a) \div b)

\* AdaptiveQuantizer::quantize, Quantizer::quantize
quantize(block, table) == [i \in 1..64 |-> TruncDiv(block[i], Max2(table[i], 1))]

\* The 8x8 block of channel ch: the channel's samples, the last column and
\* the last row repeated up to the block's edge.
BlockOf(data, width, height, ch_count, ch) ==
    [k \in 1..64 |->
        data[(Min2((k - 1) \div 8, height - 1) * width + Min2((k - 1) % 8, width - 1)) * ch_count + ch + 1]]

\* IntraMode::to_u8 of the modes in SAFE_EDGE.
IntraDC == 0
IntraHorizontal == 1
IntraVertical == 2

RECURSIVE SumSeq(_, _)
SumSeq(s, i) == IF i > Len(s) THEN 0 ELSE s[i] + SumSeq(s, i + 1)

\* IntraMode::to_u8 of SAFE_EDGE and of ALL, in the order of the arrays.
SAFE_EDGE == <<IntraDC, IntraHorizontal, IntraVertical>>
ALL_MODES == <<0, 1, 2, 3, 4, 5, 6, 7, 8, 9, 10>>

\* The neighbours get_neighbors gives a block that has none: mid grey.
GreyEdge == [i \in 1..8 |-> 128]

\* safe_top(top).get(idx).unwrap_or(default): the 16 entries of safe_top are
\* those of top, then 128.
EdgeGet(edge, idx, default) ==
    IF idx >= 16 THEN default ELSE IF idx < Len(edge) THEN edge[idx + 1] ELSE 128

\* (a + b + 1) / 2 of two neighbours, b being a where there is none.
EdgeAvg(edge, idx) ==
    (EdgeGet(edge, idx, 128) + EdgeGet(edge, idx + 1, EdgeGet(edge, idx, 128)) + 1) \div 2

\* The value IntraPredictor::predict gives sample (x, y) of an 8x8 block.
PredictAt(mode, top, left, top_left, x, y) ==
    CASE mode = 0 -> (SumSeq(top, 1) + SumSeq(left, 1) + 8) \div 16
      [] mode = 1 -> left[y + 1]
      [] mode = 2 -> top[x + 1]
      [] mode = 3 -> EdgeAvg(top, x + y + 1)
      [] mode = 4 -> IF x > y THEN EdgeGet(top, x - y - 1, 128)
                     ELSE IF x < y THEN EdgeGet(left, y - x - 1, 128)
                     ELSE top_left
      [] mode = 5 -> IF x - y \div 2 >= 0 THEN EdgeGet(top, x - y \div 2, 128)
                     ELSE EdgeGet(left, y \div 2 - x - 1, 128)
      [] mode = 6 -> IF y - x \div 2 >= 0 THEN EdgeGet(left, y - x \div 2, 128)
                     ELSE EdgeGet(top, x \div 2 - y - 1, 128)
      [] mode = 7 -> IF y % 2 = 0 THEN EdgeGet(top, x + y \div 2, 128) ELSE EdgeAvg(top, x + y \div 2)
      [] mode = 8 -> IF x % 2 = 0 THEN EdgeGet(left, y + x \div 2, 128) ELSE EdgeAvg(left, y + x \div 2)
      [] mode = 9 -> Clamp(((7 - x) * left[y + 1] + (x + 1) * top[8]
                            + (7 - y) * top[x + 1] + (y + 1) * left[8] + 8) \div 16, 0, 255)
      [] mode = 10 -> Clamp(top[x + 1] + left[y + 1] - top_left, 0, 255)

\* IntraPredictor::predict for the predictor of size 8 and the 8 top and 8
\* left neighbours of get_neighbors.
predict(mode, top, left, top_left) ==
    [k \in 1..64 |-> PredictAt(mode, top, left, top_left, (k - 1) % 8, (k - 1) \div 8)]

\* The sum of absolute differences of select_best_mode_edge.
Sad(block, pred) == SumSeq([i \in 1..64 |-> Abs(block[i] - pred[i])], 1)

\* The loop of select_best_mode_edge: the first candidate of the least SAD.
BestOf(candidates, sads) ==
    candidates[CHOOSE i \in 1..Len(candidates) :
                  /\ \A j \in 1..Len(candidates) : sads[i] <= sads[j]
                  /\ \A j \in 1..(i - 1) : sads[j] > sads[i]]

\* A choice of candidates that takes every mode for every block.
CandidatesAll(is_first_row, is_first_col) == ALL_MODES

\* The candidates of select_best_mode_edge.
Candidates(is_first_row, is_first_col) ==
    IF is_first_row \/ is_first_col THEN SAFE_EDGE ELSE ALL_MODES

\* IntraPredictor::select_best_mode_edge
select_best_mode_edge(block, top, left, top_left, is_first_row, is_first_col) ==
    With(Candidates(is_first_row, is_first_col),
         LAMBDA candidates :
            BestOf(candidates,
                   [i \in 1..Len(candidates) |-> Sad(block, predict(candidates[i], top, left, top_left))]))

\* The mode compress_lossy_v3 pushes to intra_modes for block (bx, by).
BlockModeV3(cfg, is_chroma, block, top, left, top_left, bx, by) ==
    IF cfg.use_intra_prediction /\ ~is_chroma
    THEN select_best_mode_edge(block, top, left, top_left, by = 0, bx = 0)
    ELSE IntraDC

\* The f32 fields of a BlockStats are kept in thousandths: 1000 stands for
\* 1.0, and the thresholds of needs_fallback and compute_qp likewise.
Milli(x) == 1000 * x

\* AdaptiveQuantizer::analyze_block on a block of one value v: the mean is
\* v, sum_sq / 64 and mean * mean are both v * v, no two samples differ.
analyze_block(block) ==
    CASE \A i \in 1..64 : block[i] = block[1] ->
        [mean |-> Milli(block[1]), variance |-> 0, contrast |-> 0, edge_density |-> 0,
         is_extreme |-> FALSE]

\* BlockStats::needs_fallback
needs_fallback(stats) ==
    \/ stats.is_extreme
    \/ stats.variance > Milli(5000)
    \/ stats.variance < Milli(1)
    \/ stats.mean < Milli(5)
    \/ stats.mean > Milli(250)

\* AdaptiveQuantizer::new
AdaptiveQuantizerNew(quality) ==
    [base_qp |-> Clamp(quality, 1, 100),
     min_qp |-> Max2(Max2(Clamp(quality, 1, 100) - 10, 0), 1),
     max_qp |-> Min2(Min2(Clamp(quality, 1, 100) + 10, 255), 100)]

\* The offsets compute_qp adds up before it clamps them.
QpAdjust(stats) ==
    (IF stats.mean < Milli(40) THEN -2 ELSE IF stats.mean > Milli(215) THEN -1 ELSE 0)
    + (IF stats.variance < Milli(50) THEN 2 ELSE IF stats.variance > Milli(1500) THEN -2 ELSE 0)
    + (IF stats.edge_density > 250 THEN -2 ELSE IF stats.edge_density < 30 THEN 1 ELSE 0)

\* A compute_qp that leaves out the final clamp to [min_qp, max_qp].
compute_qp_unclamped(aq, stats) ==
    IF needs_fallback(stats) THEN aq.base_qp
    ELSE aq.base_qp + Clamp(QpAdjust(stats), -5, 5)

\* AdaptiveQuantizer::compute_qp
compute_qp(aq, stats) ==
    IF needs_fallback(stats) THEN aq.base_qp
    ELSE Clamp(aq.base_qp + Clamp(QpAdjust(stats), -5, 5), aq.min_qp, aq.max_qp)

---------------------------------------------------------------------------
(* compression/engine.rs: the lossy paths.  A CompressionConfig is a record *)
(* of its seven fields.                                                     *)

Flag(b) == IF b THEN 1 ELSE 0

\* is_chroma = ch > 0 && channels >= 3
IsChroma(ch, ch_count) == ch > 0 /\ ch_count >= 3

\* The prediction compress_lossy_v3 subtracts from a block.
EncPredV3(cfg, is_chroma, mode) ==
    IF cfg.use_intra_prediction /\ ~is_chroma THEN predict(mode, GreyEdge, GreyEdge, 128)
    ELSE [i \in 1..64 |-> 128]

\* The QP compress_lossy_v3 pushes to block_qps for a block.
EncQpV3(cfg, block) ==
    IF cfg.use_adaptive_quant THEN compute_qp(AdaptiveQuantizerNew(cfg.quality), analyze_block(block))
    ELSE cfg.quality

\* The table compress_lossy_v3 quantizes a block of QP qp with.
EncTableV3(qp, is_chroma) == get_table(qp, is_chroma)

\* The scanned coefficients of a block: residual, DCT, quantization, zigzag.
ScannedV3(cfg, block, is_chroma, mode, qp) ==
    With(EncPredV3(cfg, is_chroma, mode),
         LAMBDA pred :
            zigzag_scan(quantize(dct_8x8([i \in 1..64 |-> block[i] - pred[i]]),
                                 EncTableV3(qp, is_chroma))))

\* The three sections of a channel of one block, each behind its length.
SectionsOf(cfg, mode, qp, scanned) ==
    With(IF cfg.use_cabac THEN encode_coefficients(scanned) ELSE encode_rle_huffman(scanned),
         LAMBDA encoded :
            U32Le(1) \o <<mode>> \o U32Le(1) \o <<qp>> \o U32Le(Len(encoded)) \o encoded)

\* What compress_lossy_v3 appends to all_data for channel ch: the modes,
\* the qps and the coded coefficients of its one block, each behind its length.
ChannelSectionsV3(cfg, data, width, height, ch_count, ch) ==
    With(BlockOf(data, width, height, ch_count, ch),
         LAMBDA block :
            With(<<BlockModeV3(cfg, IsChroma(ch, ch_count), block, GreyEdge, GreyEdge, 128, 0, 0),
                   EncQpV3(cfg, block)>>,
                 LAMBDA mq :
                    With(ScannedV3(cfg, block, IsChroma(ch, ch_count), mq[1], mq[2]),
                         LAMBDA scanned : SectionsOf(cfg, mq[1], mq[2], scanned))))

RECURSIVE AllDataV3(_, _, _, _, _, _)
AllDataV3(cfg, data, width, height, ch_count, ch) ==
    IF ch >= ch_count THEN <<>>
    ELSE ChannelSectionsV3(cfg, data, width, height, ch_count, ch)
         \o AllDataV3(cfg, data, width, height, ch_count, ch + 1)

\* CompressionEngine::compress_lossy_v3
compress_lossy_v3(cfg, data, width, height, ch_count) ==
    LET compressed == compress_coefficients(AllDataV3(cfg, data, width, height, ch_count, 0))
    IN <<Flag(cfg.use_cabac), Flag(cfg.use_intra_prediction), Flag(cfg.use_adaptive_quant)>>
       \o TableBytes(aggressive(cfg.quality, FALSE)) \o TableBytes(aggressive(cfg.quality, TRUE))
       \o U32Le(Len(compressed)) \o compressed

\* A length-prefixed section of all_data at pos: all_data[pos..pos + 4] and
\* all_data[pos + 4..pos + 4 + len] are indexed without a check.
ReadSection(all_data, pos) ==
    IF pos + 4 > Len(all_data) THEN [ok |-> FALSE]
    ELSE IF U32Huge(all_data, pos + 1) THEN [ok |-> FALSE]
    ELSE LET n == U32At(all_data, pos + 1)
         IN IF pos + 4 + n > Len(all_data) THEN [ok |-> FALSE]
            ELSE [ok |-> TRUE, bytes |-> SubSeq(all_data, pos + 5, pos + 4 + n), next |-> pos + 4 + n]

\* The first 64 of the decoded coefficients, zero where there are fewer.
Scanned64(c) == [i \in 1..64 |-> IF i <= Len(c) THEN c[i] ELSE 0]

\* coeff * table[i] as i16, for every coefficient of the block.
Dequantize(zigzagged, table) == [i \in 1..64 |-> AsI16(zigzagged[i] * table[i])]

\* The prediction decompress_lossy_v3 adds to a block: the intra prediction
\* of a luma block, mid grey otherwise.
PredBlockV3(use_intra, is_chroma, mode_byte) ==
    IF use_intra /\ ~is_chroma
    THEN predict(IF mode_byte \in 0..10 THEN mode_byte ELSE IntraDC, GreyEdge, GreyEdge, 128)
    ELSE [i \in 1..64 |-> 128]

\* The samples decompress_lossy_v3 rebuilds for the block of one channel.
RebuildBlockV3(scanned, table, use_intra, is_chroma, mode_byte) ==
    With(idct_8x8(Dequantize(zigzag_unscan(scanned), table)),
         LAMBDA block :
            [i \in 1..64 |-> Clamp(PredBlockV3(use_intra, is_chroma, mode_byte)[i] + block[i], 0, 255)])

\* The three sections of one channel read from all_data at pos: modes, QPs
\* and coefficient data, each behind its u32 length.
ReadSections(all_data, pos) ==
    With(ReadSection(all_data, pos),
         LAMBDA m :
            IF ~m.ok THEN [ok |-> FALSE]
            ELSE With(ReadSection(all_data, m.next),
                      LAMBDA q :
                         IF ~q.ok THEN [ok |-> FALSE]
                         ELSE With(ReadSection(all_data, q.next),
                                   LAMBDA c :
                                      IF ~c.ok THEN [ok |-> FALSE]
                                      ELSE [ok |-> TRUE, modes |-> m.bytes, qps |-> q.bytes,
                                            cf |-> c.bytes, next |-> c.next])))

\* all_coeffs of one channel: decode_coefficients for a CABAC payload, the
\* one flat run of decode_rle_huffman otherwise.
CoeffsV3(use_cabac, cf) ==
    IF use_cabac THEN Ok(decode_coefficients(cf, 0, 1))
    ELSE With(decode_rle_huffman(cf),
              LAMBDA flat :
                 IF flat.kind # "Ok" THEN flat
                 ELSE Ok(IF flat.data = <<>> THEN <<>> ELSE <<flat.data>>))

\* The table of a channel: for_quality of the block's QP under adaptive
\* quantization, the table of the preamble otherwise.
TableV3(data, qps, is_chroma) ==
    IF data[3] # 0 THEN for_quality(IF Len(qps) > 0 THEN qps[1] ELSE 85, is_chroma)
    ELSE TableParse(data, IF is_chroma THEN 131 ELSE 3)

\* The padded buffer of one channel.
PlaneV3(data, sec, all_coeffs, is_chroma) ==
    IF all_coeffs = <<>> THEN [i \in 1..64 |-> 128]
    ELSE RebuildBlockV3(Scanned64(all_coeffs[1]), TableV3(data, sec.qps, is_chroma),
                        data[2] # 0, is_chroma, IF Len(sec.modes) > 0 THEN sec.modes[1] ELSE 0)

\* The body of the channel loop of decompress_lossy_v3 from channel ch on;
\* planes holds the padded buffers of the channels done.
RECURSIVE ChannelsV3(_, _, _, _, _, _)
ChannelsV3(data, all_data, pos, ch_count, ch, planes) ==
    IF ch >= ch_count THEN [kind |-> "Ok", err |-> "", planes |-> planes]
    ELSE With(ReadSections(all_data, pos),
              LAMBDA sec :
                 IF ~sec.ok THEN [kind |-> "Panic", err |-> "index out of bounds", planes |-> <<>>]
                 ELSE With(CoeffsV3(data[1] # 0, sec.cf),
                           LAMBDA coeffs :
                              IF coeffs.kind # "Ok"
                              THEN [kind |-> coeffs.kind, err |-> coeffs.err, planes |-> <<>>]
                              ELSE ChannelsV3(data, all_data, sec.next, ch_count, ch + 1,
                                              Append(planes, PlaneV3(data, sec, coeffs.data,
                                                                     IsChroma(ch, ch_count))))))

\* output[(y * width + x) * channels + ch] = padded[y * padded_w + x]
Interleave(planes, width, height, ch_count) ==
    [k \in 1..(width * height * ch_count) |->
        LET ch == (k - 1) % ch_count
            x == ((k - 1) \div ch_count) % width
            y == ((k - 1) \div ch_count) \div width
        IN planes[ch + 1][y * 8 + x + 1]]

\* The compressed_len bytes of data after offset 263, or what is there.
CompressedV3(data) ==
    SubSeq(data, 264, 263 + (IF U32Huge(data, 260) THEN Len(data) - 263
                             ELSE Min2(U32At(data, 260), Len(data) - 263)))

\* CompressionEngine::decompress_lossy_v3
decompress_lossy_v3(data, width, height, ch_count) ==
    IF Len(data) < 259 THEN Err("DecodingError")
    ELSE IF Len(data) < 263 THEN Panic("index out of bounds")
    ELSE With(ChannelsV3(data, decompress_coefficients(CompressedV3(data)), 0, ch_count, 0, <<>>),
              LAMBDA r :
                 IF r.kind # "Ok" THEN [kind |-> r.kind, err |-> r.err, data |-> <<>>]
                 ELSE Ok(Interleave(r.planes, width, height, ch_count)))

\* padded[y * padded_w + x] of channel ch: the sample at (x, y), the last
\* column and the last row repeated beyond the raster.
PaddedAt(data, width, height, ch_count, ch, x, y) ==
    data[(Min2(y, height - 1) * width + Min2(x, width - 1)) * ch_count + ch + 1]

\* block_width * block_height
BlockCount(width, height) == ((width + 7) \div 8) * ((height + 7) \div 8)

\* The closure given to par_iter().map in compress_lossy_legacy, on the
\* k-th (from 0) pair (bx, by) of the row-major flat_map.
BlockCoeffsLegacy(cfg, data, width, height, ch_count, ch, k) ==
    With([i \in 1..64 |->
             PaddedAt(data, width, height, ch_count, ch,
                      (k % ((width + 7) \div 8)) * 8 + ((i - 1) % 8),
                      (k \div ((width + 7) \div 8)) * 8 + ((i - 1) \div 8)) - 128],
         LAMBDA block :
            zigzag_scan(quantize(dct_8x8(block),
                                 QuantizationTableForQuality(cfg.quality, IsChroma(ch, ch_count)))))

\* A collect that appends the results as the workers deliver them.
CollectSlotArrival(index, arrived) == arrived + 1

\* The place (from 1) in the Vec built by collect() of the result of item
\* index (from 0) when arrived results were delivered before it: collect on
\* an indexed parallel iterator keeps the order of the items.
CollectSlot(index, arrived) == index + 1

\* for block in blocks { all_coeffs.extend(block.iter()) }
RECURSIVE ExtendAll(_, _)
ExtendAll(blocks, i) == IF i > Len(blocks) THEN <<>> ELSE blocks[i] \o ExtendAll(blocks, i + 1)

\* blocks of channel ch when the closure has run on every pair.
ChannelBlocksLegacy(cfg, data, width, height, ch_count, ch) ==
    [k \in 1..BlockCount(width, height) |->
        BlockCoeffsLegacy(cfg, data, width, height, ch_count, ch, k - 1)]

\* The scanned coefficients compress_lossy_legacy collects from channel ch on.
RECURSIVE AllCoeffsLegacy(_, _, _, _, _, _)
AllCoeffsLegacy(cfg, data, width, height, ch_count, ch) ==
    IF ch >= ch_count THEN <<>>
    ELSE ExtendAll(ChannelBlocksLegacy(cfg, data, width, height, ch_count, ch), 1)
         \o AllCoeffsLegacy(cfg, data, width, height, ch_count, ch + 1)

\* The output of compress_lossy_legacy for the coefficients all_coeffs.
LegacyOutput(cfg, all_coeffs) ==
    TableBytes(QuantizationTableForQuality(cfg.quality, FALSE))
    \o TableBytes(QuantizationTableForQuality(cfg.quality, TRUE))
    \o encode_rle_huffman(all_coeffs)

\* CompressionEngine::compress_lossy_legacy
compress_lossy_legacy(cfg, data, width, height, ch_count) ==
    LegacyOutput(cfg, AllCoeffsLegacy(cfg, data, width, height, ch_count, 0))

\* The padded buffer decompress_lossy_legacy fills for channel ch: zero
\* where the coefficients run out.
PlaneLegacy(data, coeffs, ch_count, ch) ==
    IF ch * 64 + 64 > Len(coeffs) THEN [i \in 1..64 |-> 0]
    ELSE LET zigzagged == zigzag_unscan(SubSeq(coeffs, ch * 64 + 1, ch * 64 + 64))
             table == TableParse(data, IF IsChroma(ch, ch_count) THEN 128 ELSE 0)
             block == idct_8x8([i \in 1..64 |-> AsI16(zigzagged[i] * table[i])])
         IN [i \in 1..64 |-> Clamp(block[i] + 128, 0, 255)]

\* CompressionEngine::decompress_lossy_legacy
decompress_lossy_legacy(data, width, height, ch_count) ==
    IF Len(data) < 256 THEN Err("DecodingError")
    ELSE LET coeffs == decode_rle_huffman(SubSeq(data, 257, Len(data)))
         IN IF coeffs.kind # "Ok" THEN coeffs
            ELSE Ok(Interleave([c \in 1..ch_count |-> PlaneLegacy(data, coeffs.data, ch_count, c - 1)],
                               width, height, ch_count))

---------------------------------------------------------------------------
(* compression/engine.rs: configurations and dispatch *)

Modes == {"Lossless", "Lossy", "Mixed"}

\* CompressionConfig::default
ConfigDefault ==
    [mode |-> "Lossy", quality |-> 85, use_optimal_predictor |-> TRUE, use_cabac |-> TRUE,
     use_intra_prediction |-> TRUE, use_adaptive_quant |-> TRUE, use_simd |-> TRUE]

\* CompressionConfig::lossless
ConfigLossless ==
    [mode |-> "Lossless", quality |-> 100, use_optimal_predictor |-> TRUE, use_cabac |-> FALSE,
     use_intra_prediction |-> FALSE, use_adaptive_quant |-> FALSE, use_simd |-> TRUE]

\* CompressionConfig::lossy
ConfigLossy(quality) ==
    [mode |-> "Lossy", quality |-> Clamp(quality, 1, 100), use_optimal_predictor |-> FALSE,
     use_cabac |-> TRUE, use_intra_prediction |-> TRUE, use_adaptive_quant |-> TRUE, use_simd |-> TRUE]

\* CompressionConfig::fast_lossy
ConfigFastLossy(quality) ==
    [mode |-> "Lossy", quality |-> Clamp(quality, 1, 100), use_optimal_predictor |-> FALSE,
     use_cabac |-> FALSE, use_intra_prediction |-> FALSE, use_adaptive_quant |-> FALSE, use_simd |-> TRUE]

\* A result with the engine path that produced it.
Via(path, r) == [kind |-> r.kind, err |-> r.err, data |-> r.data, path |-> path]

\* CompressionEngine::compress_lossy
compress_lossy(cfg, data, width, height, ch_count) ==
    IF cfg.use_cabac \/ cfg.use_intra_prediction \/ cfg.use_adaptive_quant
    THEN compress_lossy_v3(cfg, data, width, height, ch_count)
    ELSE compress_lossy_legacy(cfg, data, width, height, ch_count)

\* CompressionEngine::decompress_lossy
decompress_lossy(data, width, height, ch_count) ==
    IF data # <<>> /\ data[1] <= 1 /\ Len(data) > 259
    THEN Via("lossy_v3", decompress_lossy_v3(data, width, height, ch_count))
    ELSE Via("lossy_legacy", decompress_lossy_legacy(data, width, height, ch_count))

\* A compress that takes the lossless path for Mixed.
compressMixedAsLossless(cfg, data, width, height, ch_count) ==
    IF cfg.mode \in {"Lossless", "Mixed"} THEN compress_lossless(data, width, height, ch_count)
    ELSE compress_lossy(cfg, data, width, height, ch_count)

\* CompressionEngine::compress
compress(cfg, data, width, height, ch_count) ==
    IF cfg.mode = "Lossless" THEN compress_lossless(data, width, height, ch_count)
    ELSE compress_lossy(cfg, data, width, height, ch_count)

\* CompressionEngine::decompress
decompress(data, width, height, ch_count, mode) ==
    IF mode = "Lossless" THEN Via("lossless", decompress_lossless(data, width, height, ch_count))
    ELSE decompress_lossy(data, width, height, ch_count)

---------------------------------------------------------------------------
(* metadata/: a WkMetadata is a record of its four fields.  icc_profile is  *)
(* "None" or "srgb" (IccProfile::srgb), exif and xmp are "None" or "new"    *)
(* (ExifData::new, XmpData::new), and custom is a record of the five       *)
(* fields of CustomMetadata: an Option<String> is <<>> for None and else    *)
(* the bytes of a non-empty string, and fields is the sequence of the       *)
(* entries of the map, each a key and a MetadataValue::Bool.  bincode       *)
(* writes a length or a count as u64, an enum variant as u32 and an Option  *)
(* as a tag byte, all little-endian.                                        *)

U64Le(n) == U32Le(n) \o <<0, 0, 0, 0>>

BincodeString(bytes) == U64Le(Len(bytes)) \o bytes

\* "sRGB IEC61966-2.1"
SrgbProfileName == <<115, 82, 71, 66, 32, 73, 69, 67, 54, 49, 57, 54, 54, 45, 50, 46, 49>>

\* "sRGB color space profile"
SrgbDescription ==
    <<115, 82, 71, 66, 32, 99, 111, 108, 111, 114, 32, 115, 112, 97, 99, 101,
      32, 112, 114, 111, 102, 105, 108, 101>>

\* bincode::serialize(&IccProfile::srgb())
SerializeIcc == U32Le(0) \o U32Le(0) \o BincodeString(SrgbProfileName) \o BincodeString(SrgbDescription) \o <<0>>

\* bincode::serialize(&ExifData::new()): the empty tag map.
SerializeExif == U64Le(0)

\* bincode::serialize(&XmpData::new())
SerializeXmp == <<0, 0>> \o U64Le(0) \o U64Le(0) \o <<0, 0, 0, 0, 0, 0, 0>> \o U64Le(0)

\* An Option<String> in bincode.
BincodeOption(s) == IF s = <<>> THEN <<0>> ELSE <<1>> \o BincodeString(s)

\* The entries of the fields map from entry i on: the key, then the variant
\* index of MetadataValue::Bool and its byte.
RECURSIVE BincodeFields(_, _)
BincodeFields(fields, i) ==
    IF i > Len(fields) THEN <<>>
    ELSE BincodeString(fields[i].key) \o U32Le(3) \o <<IF fields[i].value THEN 1 ELSE 0>>
             \o BincodeFields(fields, i + 1)

\* bincode::serialize(&custom): the fields in the order of the struct.
SerializeCustom(c) ==
    BincodeOption(c.created_at) \o BincodeOption(c.software) \o BincodeOption(c.author)
        \o BincodeOption(c.description) \o U64Le(Len(c.fields)) \o BincodeFields(c.fields, 1)

\* CustomMetadata::default
CustomDefault == [created_at |-> <<>>, software |-> <<>>, author |-> <<>>, description |-> <<>>, fields |-> <<>>]

\* A custom record that sets the author only.
CustomBy(author) == [CustomDefault EXCEPT !.author = author]

\* WkMetadata::new
MetadataNew == [icc_profile |-> "None", exif |-> "None", xmp |-> "None", custom |-> CustomDefault]

\* The custom records the model sets: each string unset or of one letter
\* ("1", "W", "a", "d"), the map empty or with the entry "k" -> Bool(true).
Customs ==
    [created_at : {<<>>, <<49>>}, software : {<<>>, <<87>>}, author : {<<>>, <<97>>},
     description : {<<>>, <<100>>}, fields : {<<>>, <<[key |-> <<107>>, value |-> TRUE]>>}]

\* The custom records of the encoders that set no more than the author.
Authors == {CustomDefault, CustomBy(<<97>>)}

Metadatas ==
    [icc_profile : {"None", "srgb"}, exif : {"None", "new"}, xmp : {"None", "new"}, custom : Authors]

---------------------------------------------------------------------------
(* format/chunk.rs: ChunkWriter and ChunkReader.  A writer is the bytes it  *)
(* has written and its magic_written flag; a reader reads from an offset.   *)

\* ChunkWriter::new
WriterNew == [out |-> <<>>, magic_written |-> FALSE]

\* ChunkWriter::write_magic
write_magic(w) == [out |-> w.out \o WK_MAGIC, magic_written |-> TRUE]

\* A write_chunk that never writes the magic itself.
write_chunkNoMagic(w, c) == [w EXCEPT !.out = w.out \o ChunkBytes(c)]

\* ChunkWriter::write_chunk
write_chunk(w, c) ==
    LET m == IF w.magic_written THEN w ELSE write_magic(w)
    IN [m EXCEPT !.out = m.out \o ChunkBytes(c)]

\* ChunkWriter::write_end
write_end(w) == write_chunk(w, ChunkNew("IEND", <<>>))

\* A finish that flushes without writing the end chunk.
finishWithoutEnd(w) == w.out

\* ChunkWriter::finish
finish(w) == write_end(w).out

\* ChunkReader::verify_magic on the first bytes of s.
verify_magic(s) ==
    IF Len(s) < 8 THEN "Io"
    ELSE IF SubSeq(s, 1, 8) # WK_MAGIC THEN "InvalidFormat"
    ELSE "Ok"

\* ChunkReader::read_chunk with the reader at offset pos (after the magic).
\* A size the stream cannot hold ends in read_exact's error.
read_chunk(s, pos) ==
    IF pos + 4 > Len(s) THEN [kind |-> "Err", err |-> "Io"]
    ELSE IF from_bytes(SubSeq(s, pos + 1, pos + 4)) = "?" THEN [kind |-> "Err", err |-> "InvalidChunk"]
    ELSE IF pos + 8 > Len(s) THEN [kind |-> "Err", err |-> "Io"]
    ELSE IF U32Huge(s, pos + 5) THEN [kind |-> "Err", err |-> "Io"]
    ELSE LET size == U32At(s, pos + 5)
         IN IF pos + 8 + size > Len(s) THEN [kind |-> "Err", err |-> "Io"]
            ELSE IF pos + 8 + size + 4 > Len(s) THEN [kind |-> "Err", err |-> "Io"]
            ELSE LET chunk == [chunk_type |-> from_bytes(SubSeq(s, pos + 1, pos + 4)),
                               data |-> SubSeq(s, pos + 9, pos + 8 + size),
                               crc |-> SubSeq(s, pos + 9 + size, pos + 12 + size)]
                 IN IF ~verify_crc(chunk) THEN [kind |-> "Err", err |-> "CrcMismatch"]
                    ELSE [kind |-> "Ok", err |-> "", chunk |-> chunk, next |-> pos + 12 + size]

\* The loop of read_all_chunks with the reader at pos.
RECURSIVE ReadChunksFrom(_, _, _)
ReadChunksFrom(s, pos, chunks) ==
    With(read_chunk(s, pos),
         LAMBDA r :
            IF r.kind # "Ok" THEN [kind |-> "Err", err |-> r.err, chunks |-> <<>>]
            ELSE IF r.chunk.chunk_type = "IEND"
            THEN [kind |-> "Ok", err |-> "", chunks |-> Append(chunks, r.chunk)]
            ELSE ReadChunksFrom(s, r.next, Append(chunks, r.chunk)))

\* ChunkReader::read_all_chunks on a fresh reader over s.
read_all_chunks(s) ==
    IF verify_magic(s) # "Ok" THEN [kind |-> "Err", err |-> verify_magic(s), chunks |-> <<>>]
    ELSE ReadChunksFrom(s, 8, <<>>)

---------------------------------------------------------------------------
(* encoder.rs: a WkEncoder is a record of its config and metadata; an       *)
(* image is a record of width, height, channels (1 Luma8, 2 LumaA8, 3 Rgb8, *)
(* 4 Rgba8) and its raw samples.                                            *)

\* WkEncoder::new
WkEncoderNew == [config |-> ConfigDefault, metadata |-> MetadataNew]

\* WkEncoder::lossless
WkEncoderLossless == [config |-> ConfigLossless, metadata |-> MetadataNew]

\* WkEncoder::lossy
WkEncoderLossy(quality) == [config |-> ConfigLossy(quality), metadata |-> MetadataNew]

\* WkEncoder::with_quality
with_quality(e, quality) ==
    [e EXCEPT !.config.quality = Clamp(quality, 1, 100),
              !.config.mode = IF quality = 100 THEN "Lossless" ELSE @]

\* WkEncoder::with_metadata
with_metadata(e, m) == [e EXCEPT !.metadata = m]

\* WkEncoder::with_compression_mode
with_compression_mode(e, mode) == [e EXCEPT !.config.mode = mode]

\* A header that never says the raster has alpha.
HeaderOfNoAlpha(e, image) ==
    [width |-> image.width, height |-> image.height,
     color_type |-> ColorOfChannels(image.channels),
     compression_mode |-> e.config.mode, quality |-> e.config.quality,
     has_alpha |-> FALSE, has_animation |-> FALSE, bit_depth |-> 8]

\* The header WkEncoder::encode builds.
HeaderOf(e, image) ==
    [width |-> image.width, height |-> image.height, color_type |-> ColorOfChannels(image.channels),
     compression_mode |-> e.config.mode, quality |-> e.config.quality,
     has_alpha |-> has_alpha(ColorOfChannels(image.channels)), has_animation |-> FALSE, bit_depth |-> 8]

\* The metadata chunks WkEncoder::encode writes, in its order.
MetadataChunks(m) ==
    (IF m.icc_profile # "None" THEN <<ChunkNew("ICCP", SerializeIcc)>> ELSE <<>>)
    \o (IF m.exif # "None" THEN <<ChunkNew("EXIF", SerializeExif)>> ELSE <<>>)
    \o (IF m.xmp # "None" THEN <<ChunkNew("XMP", SerializeXmp)>> ELSE <<>>)
    \o (IF m.custom.fields # <<>> \/ m.custom.author # <<>>
        THEN <<ChunkNew("CUST", SerializeCustom(m.custom))>> ELSE <<>>)

\* The chunks WkEncoder::encode hands to write_chunk before finish.
EncodeChunks(e, image) ==
    LET color_type == ColorOfChannels(image.channels)
        compressed == compress(e.config, image.data, image.width, image.height, channels(color_type))
        data_type == IF e.config.mode = "Lossless" THEN "IDAT" ELSE "IDLS"
    IN <<ChunkNew("IHDR", HeaderEncode(HeaderOf(e, image)))>>
       \o MetadataChunks(e.metadata)
       \o <<ChunkNew(data_type, compressed)>>

RECURSIVE WriteChunks(_, _, _)
WriteChunks(w, chunks, i) ==
    IF i > Len(chunks) THEN w ELSE WriteChunks(write_chunk(w, chunks[i]), chunks, i + 1)

\* WkEncoder::encode: the bytes the writer holds when it returns Ok.
encode(e, image) == finish(WriteChunks(WriterNew, EncodeChunks(e, image), 1))

---------------------------------------------------------------------------
(* decoder.rs *)

\* A search that takes the first chunk of the file whatever its type.
FindChunkFirst(chunks, types) == IF Len(chunks) > 0 THEN 1 ELSE 0

\* chunks.iter().find(..): the index of the first chunk of a type in types, 0 for None.
FindChunk(chunks, types) ==
    LET hits == {i \in 1..Len(chunks) : chunks[i].chunk_type \in types}
    IN IF hits = {} THEN 0 ELSE CHOOSE i \in hits : \A j \in hits : i <= j

\* A metadata loop that keeps nothing of what it reads.
CollectMetadataNone(chunks, i, m) == MetadataNew

\* The metadata loop of WkDecoder::decode from chunk i on: a payload that
\* deserializes replaces the field, any other is passed over.
RECURSIVE CollectMetadata(_, _, _)
CollectMetadata(chunks, i, m) ==
    IF i > Len(chunks) THEN m
    ELSE LET c == chunks[i]
             n == CASE c.chunk_type = "ICCP" /\ c.data = SerializeIcc -> [m EXCEPT !.icc_profile = "srgb"]
                    [] c.chunk_type = "EXIF" /\ c.data = SerializeExif -> [m EXCEPT !.exif = "new"]
                    [] c.chunk_type = "XMP" /\ c.data = SerializeXmp -> [m EXCEPT !.xmp = "new"]
                    [] c.chunk_type = "CUST" /\ (\E a \in Customs : c.data = SerializeCustom(a)) ->
                           [m EXCEPT !.custom = CHOOSE a \in Customs : c.data = SerializeCustom(a)]
                    [] OTHER -> m
         IN CollectMetadata(chunks, i + 1, n)

\* WkDecoder::raw_to_image: ImageBuffer::from_raw is None for a short buffer.
raw_to_image(data, header) ==
    IF Len(data) < header.width * header.height * channels(header.color_type)
    THEN [kind |-> "Err", err |-> "DecodingError"]
    ELSE [kind |-> "Ok", err |-> "",
          image |-> [width |-> header.width, height |-> header.height,
                     channels |-> channels(header.color_type), data |-> data]]

NoImage == [width |-> 0, height |-> 0, channels |-> 0, data |-> <<>>]

\* The header of a result that carries none.
NoHeader ==
    [width |-> 0, height |-> 0, color_type |-> 0, compression_mode |-> "?", quality |-> 0,
     has_alpha |-> FALSE, has_animation |-> FALSE, bit_depth |-> 0]

\* What WkDecoder::decode returns when it fails with e before the engine ran.
DecodeErr(e) ==
    [kind |-> "Err", err |-> e, path |-> "", image |-> NoImage, metadata |-> MetadataNew,
     header |-> NoHeader]

\* WkDecoder::decode from the data chunk on: decompress with the header's
\* compression_mode, then raw_to_image.
DecodeData(chunk, header, metadata) ==
    With(decompress(chunk.data, header.width, header.height,
                    channels(header.color_type), header.compression_mode),
         LAMBDA raw :
            IF raw.kind # "Ok"
            THEN [kind |-> raw.kind, err |-> raw.err, path |-> raw.path,
                  image |-> NoImage, metadata |-> MetadataNew, header |-> NoHeader]
            ELSE LET im == raw_to_image(raw.data, header)
                 IN IF im.kind # "Ok"
                    THEN [kind |-> "Err", err |-> im.err, path |-> raw.path,
                          image |-> NoImage, metadata |-> MetadataNew, header |-> NoHeader]
                    ELSE [kind |-> "Ok", err |-> "", path |-> raw.path,
                          image |-> im.image, metadata |-> metadata, header |-> header])

\* WkDecoder::decode
decode(s) ==
    With(read_all_chunks(s),
         LAMBDA all :
            IF all.kind # "Ok" THEN DecodeErr(all.err)
            ELSE LET chunks == all.chunks
                     hi == FindChunk(chunks, {"IHDR"})
                 IN IF hi = 0 THEN DecodeErr("MissingChunk")
                    ELSE LET hd == HeaderDecode(chunks[hi].data)
                         IN IF hd.kind # "Ok" THEN DecodeErr(hd.err)
                            ELSE LET di == FindChunk(chunks, {"IDAT", "IDLS"})
                                 IN IF di = 0 THEN DecodeErr("MissingChunk")
                                    ELSE DecodeData(chunks[di], hd.header,
                                                    CollectMetadata(chunks, 1, MetadataNew)))

\* WkDecoder::decode_header
decode_header(s) ==
    IF verify_magic(s) # "Ok" THEN [kind |-> "Err", err |-> verify_magic(s)]
    ELSE LET r == read_chunk(s, 8)
         IN IF r.kind # "Ok" THEN [kind |-> "Err", err |-> r.err]
            ELSE IF r.chunk.chunk_type # "IHDR" THEN [kind |-> "Err", err |-> "InvalidFormat"]
            ELSE HeaderDecode(r.chunk.data)

---------------------------------------------------------------------------
(* The rasters and configurations the specifications draw. *)

\* The sample values of a drawn raster.
Samples == {0, 100, 255}

\* The geometries <<width, height, channels>> within the bounds.
Geometries ==
    {g \in (1..MaxDim) \X (1..MaxDim) \X (1..4) : g[1] * g[2] * g[3] <= MaxRaw}

ImageOf(g, data) == [width |-> g[1], height |-> g[2], channels |-> g[3], data |-> data]

\* Every raster of a geometry over the sample values.
Rasters == UNION {{ImageOf(g, d) : d \in [1..(g[1] * g[2] * g[3]) -> Samples]} : g \in Geometries}

\* The mid-grey raster of each geometry: every sample 128.
GreyRasters == {ImageOf(g, [i \in 1..(g[1] * g[2] * g[3]) |-> 128]) : g \in Geometries}

NoResult == [kind |-> "None", err |-> "", data |-> <<>>, path |-> ""]

Undamaged(image) ==
    [damage |-> "none", width |-> image.width, height |-> image.height, channels |-> image.channels]

---------------------------------------------------------------------------
(* SpecEngine: a caller of CompressionEngine compresses a raster, the       *)
(* payload reaches decompress as it is or damaged, and decompress runs      *)
(* with the geometry a header declares.                                     *)

EngineConfigs == {ConfigLossless, ConfigDefault, ConfigFastLossy(50)}

EngineInit ==
    /\ pc = "start"
    /\ enc \in EngineConfigs
    /\ img \in (IF enc.mode = "Lossless" THEN Rasters ELSE GreyRasters)
    /\ payload = <<>>
    /\ stream = <<>>
    /\ res = NoResult
    /\ note = Undamaged(img)

\* CompressionEngine::compress
EngineCompress ==
    /\ pc = "start"
    /\ payload' = compress(enc, img.data, img.width, img.height, img.channels)
    /\ pc' = "compressed"
    /\ UNCHANGED <<enc, img, stream, res, note>>

\* The payload loses its last bytes on the way.
DamageTruncate ==
    /\ pc = "compressed"
    /\ \E cut \in {1, 6} :
          /\ Len(payload) > cut
          /\ payload' = SubSeq(payload, 1, Len(payload) - cut)
    /\ note' = [note EXCEPT !.damage = "truncated"]
    /\ pc' = "damaged"
    /\ UNCHANGED <<enc, img, stream, res>>

\* The header declares more than the payload holds: one more row for a
\* lossless payload, one more channel for a lossy one.
DamageGeometry ==
    /\ pc = "compressed"
    /\ IF enc.mode = "Lossless"
       THEN note' = [note EXCEPT !.damage = "geometry", !.height = @ + 1]
       ELSE /\ note.channels < 4
            /\ note' = [note EXCEPT !.damage = "geometry", !.channels = @ + 1]
    /\ pc' = "damaged"
    /\ UNCHANGED <<enc, img, payload, stream, res>>

\* The deflate stream of a lossy v3 payload is damaged: its first header
\* byte, or the stream is cut off behind its header.
DamageDeflate ==
    /\ pc = "compressed"
    /\ enc.mode # "Lossless"
    /\ payload[1] <= 1 /\ Len(payload) > 265
    /\ \/ payload' = [payload EXCEPT ![264] = (@ + 1) % 256]
       \/ payload' = SubSeq(payload, 1, 265)
    /\ note' = [note EXCEPT !.damage = "deflate"]
    /\ pc' = "damaged"
    /\ UNCHANGED <<enc, img, stream, res>>

\* CompressionEngine::decompress with the declared geometry.
EngineDecompress ==
    /\ pc \in {"compressed", "damaged"}
    /\ res' = decompress(payload, note.width, note.height, note.channels, enc.mode)
    /\ pc' = "done"
    /\ UNCHANGED <<enc, img, payload, stream, note>>

EngineNext ==
    \/ EngineCompress
    \/ DamageTruncate
    \/ DamageGeometry
    \/ DamageDeflate
    \/ EngineDecompress

SpecEngine == EngineInit /\ [][EngineNext]_vars


C10_DamagedPayloadIsDecodingError ==
    (pc = "done" /\ note.damage # "none") => (res.kind = "Err" /\ res.err = "DecodingError")

\* A lossy payload whose deflate stream does not inflate has been decoded,
\* and the call panicked.
C10_DeflateFailurePanics ==
    /\ pc = "done" /\ note.damage = "deflate"
    /\ InflateFails(SubSeq(payload, 264, Len(payload)))
    /\ res.kind = "Panic"

---------------------------------------------------------------------------
(* SpecEnc: a caller constructs a WkEncoder, reconfigures it with the       *)
(* builder methods, and encodes a mid-grey image into a stream.  note       *)
(* keeps the mode and quality the caller asked for last.                    *)

\* The qualities a caller asks for.
Qualities == {50, 100}

\* The metadata a caller attaches: none, a part, all with an author.
EncMetadatas ==
    {MetadataNew,
     [icc_profile |-> "srgb", exif |-> "None", xmp |-> "new", custom |-> CustomDefault],
     [icc_profile |-> "srgb", exif |-> "new", xmp |-> "new", custom |-> CustomBy(<<97>>)]}

\* The one-pixel mid-grey image of each colour type.
EncRasters == {r \in GreyRasters : r.width * r.height = 1}

Asked(e) == [asked_mode |-> e.config.mode, asked_quality |-> e.config.quality]

EncInit ==
    /\ pc = "built"
    /\ enc \in {WkEncoderNew, WkEncoderLossless} \cup {WkEncoderLossy(q) : q \in Qualities}
    /\ img \in EncRasters
    /\ payload = <<>>
    /\ stream = <<>>
    /\ res = NoResult
    /\ note = Asked(enc)

WithQuality ==
    /\ pc = "built"
    /\ \E q \in Qualities :
          /\ enc' = with_quality(enc, q)
          /\ note' = [note EXCEPT !.asked_quality = q]
    /\ UNCHANGED <<pc, img, payload, stream, res>>

WithCompressionMode ==
    /\ pc = "built"
    /\ \E m \in Modes :
          /\ enc' = with_compression_mode(enc, m)
          /\ note' = [note EXCEPT !.asked_mode = m]
    /\ UNCHANGED <<pc, img, payload, stream, res>>

WithMetadata ==
    /\ pc = "built"
    /\ \E m \in EncMetadatas : enc' = with_metadata(enc, m)
    /\ UNCHANGED <<pc, img, payload, stream, res, note>>

Encode ==
    /\ pc = "built"
    /\ stream' = encode(enc, img)
    /\ pc' = "encoded"
    /\ UNCHANGED <<enc, img, payload, res, note>>

EncNext == WithQuality \/ WithCompressionMode \/ WithMetadata \/ Encode

SpecEnc == EncInit /\ [][EncNext]_vars

\* The layout of a written stream: after the magic, chunk after chunk of
\* type(4), size(4, little endian), data(size), crc(4); rest counts the
\* bytes that follow the last whole chunk.
RECURSIVE SpansFrom(_, _, _)
SpansFrom(s, pos, spans) ==
    IF pos + 12 > Len(s) \/ U32Huge(s, pos + 5) \/ pos + 12 + U32At(s, pos + 5) > Len(s)
    THEN [magic |-> TRUE, spans |-> spans, rest |-> Len(s) - pos]
    ELSE LET size == U32At(s, pos + 5)
         IN SpansFrom(s, pos + 12 + size,
                      Append(spans, [tag |-> SubSeq(s, pos + 1, pos + 4),
                                     data |-> SubSeq(s, pos + 9, pos + 8 + size),
                                     crc |-> SubSeq(s, pos + 9 + size, pos + 12 + size)]))

Layout(s) ==
    IF Len(s) < 8 \/ SubSeq(s, 1, 8) # WK_MAGIC
    THEN [magic |-> FALSE, spans |-> <<>>, rest |-> Len(s)]
    ELSE SpansFrom(s, 8, <<>>)

MetadataTags == {TagICCP, TagEXIF, TagXMP, TagCUST}

DataTags == {TagIDAT, TagIDLS}

\* C2: every stream WkEncoder::encode returns is the 8-byte magic, one IHDR
\* chunk, zero or more metadata chunks, one data chunk and one IEND chunk
\* with an empty payload as the final chunk, in this order and nothing else.
C2_EncodeOrder ==
    pc = "encoded" =>
        LET l == Layout(stream)
            n == Len(l.spans)
        IN /\ l.magic
           /\ l.rest = 0
           /\ n >= 3
           /\ l.spans[1].tag = TagIHDR
           /\ \A i \in 2..(n - 2) : l.spans[i].tag \in MetadataTags
           /\ l.spans[n - 1].tag \in DataTags
           /\ l.spans[n].tag = TagIEND
           /\ l.spans[n].data = <<>>

\* An encoder with four metadata items has written a stream of seven chunks.
C2_FullStreamWritten ==
    /\ pc = "encoded"
    /\ enc.metadata.custom # CustomDefault /\ enc.metadata.exif # "None"
    /\ Len(Layout(stream).spans) = 7
    /\ Layout(stream).spans[5].tag = TagCUST

\* C3: for every chunk written to a stream, the stored four CRC bytes are
\* the CRC32 of the four type bytes followed by the payload written with it.
C3_StoredCrc ==
    pc = "encoded" =>
        \A i \in 1..Len(Layout(stream).spans) :
            LET c == Layout(stream).spans[i]
            IN c.crc = CrcFinal(CrcBlocks(<<255, 255, 255, 255>>, c.tag \o c.data, 1))

\* A stream with a lossless data chunk of more than a thousand bytes and an
\* empty end chunk has been written.
C3_ChunksWritten ==
    /\ pc = "encoded"
    /\ Len(Layout(stream).spans) >= 4
    /\ \E i \in 1..Len(Layout(stream).spans) :
          Layout(stream).spans[i].tag = TagIDAT /\ Len(Layout(stream).spans[i].data) > 1000

\* C8: an encoder asked for quality 100 and mode Lossy, by lossy(100), by
\* with_quality(100) or by with_compression_mode(Lossy), encodes exactly as
\* a Lossless encoder: header mode Lossless, data chunk IDAT, lossless
\* payload.
C8_Quality100LossyIsLossless ==
    (pc = "encoded" /\ note.asked_quality = 100 /\ note.asked_mode = "Lossy")
        => stream = encode(with_metadata(WkEncoderLossless, enc.metadata), img)

\* WkEncoder::lossy(100) or with_compression_mode(Lossy) at quality 100 has
\* encoded: the header says Lossy and the data chunk is IDLS.
C8_Quality100WritesLossy ==
    /\ pc = "encoded" /\ note.asked_quality = 100 /\ note.asked_mode = "Lossy"
    /\ enc.config.quality = 100 /\ enc.config.mode = "Lossy"
    /\ Layout(stream).spans[1].data[10] = ModeCode("Lossy")
    /\ \E i \in 1..Len(Layout(stream).spans) : Layout(stream).spans[i].tag = TagIDLS

\* C9: every encoder output holds exactly one data chunk, IDAT when the
\* configured mode is Lossless and IDLS when it is Lossy or Mixed, and its
\* payload is what the matching engine path produces, Mixed being
\* compressed as Lossy.
C9_OneDataChunk ==
    pc = "encoded" =>
        LET spans == Layout(stream).spans
            hits == {i \in 1..Len(spans) : spans[i].tag \in DataTags}
        IN /\ Cardinality(hits) = 1
           /\ \A i \in hits :
                 IF enc.config.mode = "Lossless"
                 THEN /\ spans[i].tag = TagIDAT
                      /\ spans[i].data = compress_lossless(img.data, img.width, img.height, img.channels)
                 ELSE /\ spans[i].tag = TagIDLS
                      /\ spans[i].data = compress_lossy(enc.config, img.data, img.width, img.height, img.channels)

\* A Mixed encoder has written its image as an IDLS chunk.
C9_MixedWritten ==
    /\ pc = "encoded" /\ enc.config.mode = "Mixed"
    /\ \E i \in 1..Len(Layout(stream).spans) : Layout(stream).spans[i].tag = TagIDLS

---------------------------------------------------------------------------
(* SpecTamper: an encoded stream has one byte changed, in a chunk payload   *)
(* or in the CRC field of the IEND chunk, and is then decoded.              *)

TamperEncoders == {WkEncoderLossless, with_metadata(WkEncoderNew, CHOOSE m \in EncMetadatas : m.custom # CustomDefault)}

\* The amounts added (mod 256) to the changed byte.
Deltas == {1, 128, 255}

\* The 1-based stream position of the first data byte of chunk i.
RECURSIVE DataStart(_, _)
DataStart(spans, i) == IF i = 1 THEN 17 ELSE DataStart(spans, i - 1) + Len(spans[i - 1].data) + 12

\* The offsets changed in a payload of n bytes: each one of a short
\* payload, the ends and the middle of a long one.
Offsets(n) == IF n <= 16 THEN 0..(n - 1) ELSE {0, n \div 2, n - 1}

TamperInit ==
    /\ pc = "built"
    /\ enc \in TamperEncoders
    /\ img \in {r \in EncRasters : r.channels \in {1, 4}}
    /\ payload = <<>>
    /\ stream = <<>>
    /\ res = NoResult
    /\ note = [damage |-> "none", at |-> 0]

TamperPayload ==
    /\ pc = "encoded"
    /\ \E i \in 1..Len(Layout(stream).spans) :
          \E o \in Offsets(Len(Layout(stream).spans[i].data)) :
             \E d \in Deltas :
                LET at == DataStart(Layout(stream).spans, i) + o
                IN /\ stream' = [stream EXCEPT ![at] = (@ + d) % 256]
                   /\ note' = [damage |-> "payload", at |-> at]
    /\ pc' = "tampered"
    /\ UNCHANGED <<enc, img, payload, res>>

TamperEndCrc ==
    /\ pc = "encoded"
    /\ \E o \in 0..3 :
          \E d \in Deltas :
             LET at == Len(stream) - o
             IN /\ stream' = [stream EXCEPT ![at] = (@ + d) % 256]
                /\ note' = [damage |-> "end_crc", at |-> at]
    /\ pc' = "tampered"
    /\ UNCHANGED <<enc, img, payload, res>>

Decode ==
    /\ pc \in {"encoded", "tampered"}
    /\ res' = decode(stream)
    /\ pc' = "done"
    /\ UNCHANGED <<enc, img, payload, stream, note>>

TamperNext == Encode \/ TamperPayload \/ TamperEndCrc \/ Decode

SpecTamper == TamperInit /\ [][TamperNext]_vars

\* C4: a valid encoded stream with a single byte changed inside any chunk
\* payload, or with a byte of the IEND chunk's CRC field changed, fails to
\* decode with CrcMismatch and returns no image.
C4_TamperIsCrcMismatch ==
    (pc = "done" /\ note.damage # "none")
        => (res.kind = "Err" /\ res.err = "CrcMismatch" /\ res.image = NoImage)

\* A stream with a byte of its data payload changed has been decoded, and
\* so has the same stream unchanged, which gave the image back.
C4_TamperedDecoded ==
    /\ pc = "done" /\ note.damage = "payload"
    /\ note.at > 17 + 16 + 12
    /\ res.kind = "Err"
    /\ decode(encode(enc, img)).kind = "Ok"

---------------------------------------------------------------------------
(* SpecDec: a writer other than WkEncoder puts chunks with valid CRCs into  *)
(* a stream in any order, headers of either mode, data chunks of either     *)
(* type, chunks of a type the format does not know, and bytes after IEND;   *)
(* WkDecoder::decode then reads the stream.  note keeps what was written.   *)

\* The image the foreign writer stores: two LumaA8 pixels of mid grey.
DecImage == ImageOf(<<1, 2, 2>>, <<128, 128, 128, 128>>)

\* A chunk type no ChunkType variant has.
TagUnknown == <<90, 90, 90, 90>>

DecHeaderBytes ==
    [m \in {"Lossless", "Lossy"} |->
        ChunkBytes(ChunkNew("IHDR", HeaderEncode(HeaderOf(with_compression_mode(WkEncoderNew, m), DecImage))))]

DecIdatBytes ==
    ChunkBytes(ChunkNew("IDAT", compress(ConfigLossless, DecImage.data, DecImage.width,
                                         DecImage.height, DecImage.channels)))

DecIdlsBytes ==
    ChunkBytes(ChunkNew("IDLS", compress(ConfigDefault, DecImage.data, DecImage.width,
                                         DecImage.height, DecImage.channels)))

DecUnknownBytes ==
    TagUnknown \o U32Le(3) \o <<1, 2, 3>>
    \o CrcFinal(CrcBlocks(<<255, 255, 255, 255>>, TagUnknown \o <<1, 2, 3>>, 1))

DecEndBytes == ChunkBytes(ChunkNew("IEND", <<>>))

\* An IHDR chunk one byte short of a header.
DecShortHeaderBytes ==
    ChunkBytes(ChunkNew("IHDR", SubSeq(HeaderEncode(HeaderOf(WkEncoderNew, DecImage)), 1, 15)))

\* The bytes of a written chunk, by the name note gives it.
WrittenBytes(w) ==
    CASE w = "IHDR/Lossless" -> DecHeaderBytes["Lossless"]
      [] w = "IHDR/Lossy" -> DecHeaderBytes["Lossy"]
      [] w = "IHDR/Short" -> DecShortHeaderBytes
      [] w = "IDAT" -> DecIdatBytes
      [] w = "IDLS" -> DecIdlsBytes
      [] w = "ZZZZ" -> DecUnknownBytes
      [] w = "IEND" -> DecEndBytes

RECURSIVE StreamOf(_, _)
StreamOf(written, i) ==
    IF i > Len(written) THEN <<>> ELSE WrittenBytes(written[i]) \o StreamOf(written, i + 1)

Ended(written) == Len(written) > 0 /\ written[Len(written)] = "IEND"

DecInit ==
    /\ pc = "writing"
    /\ enc = WkEncoderNew
    /\ img = DecImage
    /\ payload = <<>>
    /\ stream = WK_MAGIC
    /\ res = NoResult
    /\ note = [written |-> <<>>, trailing |-> FALSE]

\* The writer may add a chunk: the stream is open and below the bound.
CanPut == pc = "writing" /\ ~Ended(note.written) /\ Len(note.written) < MaxChunks

\* The chunk named w is appended to the stream.
Appended(w) ==
    /\ stream' = stream \o WrittenBytes(w)
    /\ note' = [note EXCEPT !.written = Append(@, w)]

PutHeader ==
    /\ CanPut
    /\ \E w \in {"IHDR/Lossless", "IHDR/Lossy"} : Appended(w)
    /\ UNCHANGED <<pc, enc, img, payload, res>>

PutData ==
    /\ CanPut
    /\ \E w \in {"IDAT", "IDLS"} : Appended(w)
    /\ UNCHANGED <<pc, enc, img, payload, res>>

PutUnknown ==
    /\ CanPut
    /\ Appended("ZZZZ")
    /\ UNCHANGED <<pc, enc, img, payload, res>>

PutEnd ==
    /\ CanPut
    /\ Appended("IEND")
    /\ UNCHANGED <<pc, enc, img, payload, res>>

PutTrailing ==
    /\ pc = "writing"
    /\ Ended(note.written)
    /\ ~note.trailing
    /\ stream' = stream \o <<0>>
    /\ note' = [note EXCEPT !.trailing = TRUE]
    /\ UNCHANGED <<pc, enc, img, payload, res>>

DecodeForeign ==
    /\ pc = "writing"
    /\ res' = decode(stream)
    /\ pc' = "done"
    /\ UNCHANGED <<enc, img, payload, stream, note>>

DecNext == PutHeader \/ PutData \/ PutUnknown \/ PutEnd \/ PutTrailing \/ DecodeForeign

SpecDec == DecInit /\ [][DecNext]_vars

\* The chunks written that carry image data.
DataWritten(written) == SelectSeq(written, LAMBDA w : w \in {"IDAT", "IDLS"})

IsHeader(w) == w \in {"IHDR/Lossless", "IHDR/Lossy"}

\* C5: a chunk whose type is not a known one and whose CRC validates is
\* skipped: decoding goes on with the next chunk and gives what the stream
\* without that chunk gives, so the image still decodes.
C5_UnknownChunkSkipped ==
    (pc = "done" /\ \E i \in 1..Len(note.written) : note.written[i] = "ZZZZ")
        => With(decode(WK_MAGIC \o StreamOf(SelectSeq(note.written, LAMBDA w : w # "ZZZZ"), 1)
                       \o (IF note.trailing THEN <<0>> ELSE <<>>)),
                LAMBDA without : without.kind = "Ok" => res = without)

\* A stream that decodes to the image once its unknown chunk is taken out
\* has been decoded with the chunk in, and decode failed with InvalidChunk.
C5_UnknownChunkRejected ==
    /\ pc = "done"
    /\ note.written = <<"IHDR/Lossless", "ZZZZ", "IDAT", "IEND">>
    /\ decode(WK_MAGIC \o StreamOf(<<"IHDR/Lossless", "IDAT", "IEND">>, 1)).kind = "Ok"
    /\ res.kind = "Err" /\ res.err = "InvalidChunk"

\* C6: decode accepts a stream only if its first chunk is IHDR, exactly one
\* IDAT or IDLS chunk appears and the stream ends with IEND: IHDR in a later
\* position, two data chunks, or bytes after IEND are rejected.
C6_AcceptsOnlyWellFormed ==
    (pc = "done" /\ res.kind = "Ok")
        => /\ Len(note.written) > 0 /\ IsHeader(note.written[1])
           /\ Len(DataWritten(note.written)) = 1
           /\ Ended(note.written)
           /\ ~note.trailing

\* A stream with its data chunk before IHDR, with a second data chunk, and
\* with a byte after IEND has been decoded to an image.
C6_MalformedAccepted ==
    /\ pc = "done"
    /\ note.written = <<"IDAT", "IHDR/Lossless", "IDLS", "IEND">>
    /\ note.trailing
    /\ res.kind = "Ok" /\ res.image = img

\* C7: the decoder decompresses the data payload by the mode the data
\* chunk's type implies, lossless for IDAT and lossy for IDLS, whatever
\* compression_mode the header carries.
C7_ModeFromChunkType ==
    (pc = "done" /\ res.path # "")
        => (res.path = "lossless" <=> DataWritten(note.written)[1] = "IDAT")

\* An IDAT chunk under a header that says Lossy has been decoded down the
\* lossy path.
C7_ModeFromHeader ==
    /\ pc = "done"
    /\ note.written = <<"IHDR/Lossy", "IDAT", "IEND">>
    /\ res.path \in {"lossy_v3", "lossy_legacy"}

---------------------------------------------------------------------------
(* SpecMeta: a stream is encoded with any of the metadata sets, the payload *)
(* of one metadata chunk is cut short by a writer that stores the CRC of    *)
(* what it writes, and the stream is decoded.  A strict prefix of a bincode *)
(* serialization never deserializes: the reader takes the same path through *)
(* the same bytes and meets the end of the input.                           *)

\* The chunks of spans from chunk i on, as a writer that computes the CRC
\* of each writes them.
RECURSIVE SpansBytes(_, _)
SpansBytes(spans, i) ==
    IF i > Len(spans) THEN <<>>
    ELSE spans[i].tag \o U32Le(Len(spans[i].data)) \o spans[i].data
         \o CrcFinal(CrcBlocks(<<255, 255, 255, 255>>, spans[i].tag \o spans[i].data, 1))
         \o SpansBytes(spans, i + 1)

\* The lengths a metadata payload of n bytes is cut to.
CutLengths(n) == {0, n \div 2, n - 1}

MetaInit ==
    /\ pc = "built"
    /\ enc \in {with_metadata(e, m) : e \in {WkEncoderLossless, WkEncoderNew}, m \in Metadatas}
    /\ img = DecImage
    /\ payload = <<>>
    /\ stream = <<>>
    /\ res = NoResult
    /\ note = [damage |-> "none", tag |-> <<>>]

CutMetadata ==
    /\ pc = "encoded"
    /\ \E i \in 1..Len(Layout(stream).spans) :
          /\ Layout(stream).spans[i].tag \in MetadataTags
          /\ \E n \in CutLengths(Len(Layout(stream).spans[i].data)) :
                /\ stream' = WK_MAGIC \o SpansBytes([Layout(stream).spans EXCEPT ![i].data = SubSeq(@, 1, n)], 1)
                /\ note' = [damage |-> "metadata", tag |-> Layout(stream).spans[i].tag]
    /\ pc' = "tampered"
    /\ UNCHANGED <<enc, img, payload, res>>

MetaNext == Encode \/ CutMetadata \/ Decode

SpecMeta == MetaInit /\ [][MetaNext]_vars

\* The metadata left when the item stored under a chunk type is dropped.
Without(m, tag) ==
    CASE tag = TagICCP -> [m EXCEPT !.icc_profile = "None"]
      [] tag = TagEXIF -> [m EXCEPT !.exif = "None"]
      [] tag = TagXMP -> [m EXCEPT !.xmp = "None"]
      [] tag = TagCUST -> [m EXCEPT !.custom = CustomDefault]
      [] OTHER -> m

\* C11: a metadata chunk (ICCP, EXIF, XMP, CUST) whose payload fails to
\* parse never makes decode fail: that item is dropped, and the image and
\* the other metadata items are still returned.
C11_BadMetadataDropped ==
    (pc = "done" /\ note.damage = "metadata")
        => /\ res.kind = "Ok"
           /\ res.image = img
           /\ res.metadata = Without(enc.metadata, note.tag)

\* A stream with four metadata chunks, the EXIF payload cut short, has
\* been decoded and the three other items came back.
C11_CutExifDecoded ==
    /\ pc = "done" /\ note.damage = "metadata" /\ note.tag = TagEXIF
    /\ enc.metadata.icc_profile # "None" /\ enc.metadata.xmp # "None" /\ enc.metadata.custom # CustomDefault
    /\ res.kind = "Ok"
    /\ res.metadata = [enc.metadata EXCEPT !.exif = "None"]

---------------------------------------------------------------------------
(* SpecMiss: the foreign writer of SpecDec with a third header chunk, an    *)
(* IHDR whose payload is 15 bytes, and without unknown chunks or trailing   *)
(* bytes.                                                                   *)

PutShortHeader ==
    /\ CanPut
    /\ Appended("IHDR/Short")
    /\ UNCHANGED <<pc, enc, img, payload, res>>

MissNext == PutHeader \/ PutShortHeader \/ PutData \/ PutEnd \/ DecodeForeign

SpecMiss == DecInit /\ [][MissNext]_vars

\* The IHDR chunks written, in order.
HeadersWritten(written) ==
    SelectSeq(written, LAMBDA w : w \in {"IHDR/Lossless", "IHDR/Lossy", "IHDR/Short"})

---------------------------------------------------------------------------
(* SpecHead: a raster of every geometry and channel count is encoded by an  *)
(* encoder of every mode and decoded.                                       *)

HeadRasters ==
    {ImageOf(<<w, h, c>>, [i \in 1..(w * h * c) |-> 128]) : w \in 1..MaxDim, h \in 1..MaxDim, c \in 1..4}

HeadEncoders ==
    {WkEncoderLossless, WkEncoderNew, WkEncoderLossy(50), WkEncoderLossy(100),
     with_compression_mode(WkEncoderNew, "Mixed"),
     with_metadata(WkEncoderNew, [icc_profile |-> "srgb", exif |-> "new", xmp |-> "new", custom |-> CustomBy(<<97>>)])}

HeadInit ==
    /\ pc = "built"
    /\ enc \in HeadEncoders
    /\ img \in HeadRasters
    /\ payload = <<>>
    /\ stream = <<>>
    /\ res = NoResult
    /\ note = [damage |-> "none", at |-> 0]

HeadNext == Encode \/ Decode

SpecHead == HeadInit /\ [][HeadNext]_vars

\* C13: header fidelity.  For every raster and every encoder mode the
\* header decode returns for the encoded raster has the raster's width and
\* height and the color type of its channel count, has_alpha is true
\* exactly for 2 or 4 channels, and the IHDR payload written is 16 bytes.
C13_HeaderFidelity ==
    (pc = "done")
        => /\ res.kind = "Ok"
           /\ res.header.width = img.width
           /\ res.header.height = img.height
           /\ res.header.color_type = ColorOfChannels(img.channels)
           /\ res.header.has_alpha = (img.channels \in {2, 4})
           /\ Layout(stream).spans[1].tag = TagIHDR
           /\ Len(Layout(stream).spans[1].data) = 16

\* A 1x2 raster of four channels written by a lossy encoder has been
\* decoded, and the header came back with width 1, height 2 and alpha.
C13_RgbaHeaderDecoded ==
    /\ pc = "done" /\ enc.config.mode = "Lossy"
    /\ img.width = 1 /\ img.height = 2 /\ img.channels = 4
    /\ res.kind = "Ok"
    /\ res.header.width = 1 /\ res.header.height = 2 /\ res.header.has_alpha

---------------------------------------------------------------------------
(* SpecPred: apply_predictor filters a raster with one predictor for every  *)
(* row and reverse_predictor rebuilds it.                                   *)

PredInit ==
    /\ pc = "start"
    /\ enc = ConfigLossless
    /\ img \in Rasters
    /\ payload = <<>>
    /\ stream = <<>>
    /\ res = NoResult
    /\ note \in [predictor : PredictorTypes]

ApplyPredictor ==
    /\ pc = "start"
    /\ payload' = apply_predictor(img.data, img.width, img.height, img.channels, note.predictor)
    /\ pc' = "filtered"
    /\ UNCHANGED <<enc, img, stream, res, note>>

ReversePredictor ==
    /\ pc = "filtered"
    /\ res' = reverse_predictor(payload, img.width, img.height, img.channels)
    /\ pc' = "done"
    /\ UNCHANGED <<enc, img, payload, stream, note>>

PredNext == ApplyPredictor \/ ReversePredictor

SpecPred == PredInit /\ [][PredNext]_vars

\* C14: predictor law.  For every predictor None, Sub, Up, Average, Paeth
\* and every raster X, reverse_predictor of apply_predictor(X, t) is X, the
\* arithmetic wrapping at a byte and samples outside the raster read as 0.
C14_PredictorLaw ==
    (pc = "done") => (res.kind = "Ok" /\ res.data = img.data)

\* A 2x2 raster has been filtered with Paeth, a difference wrapped below 0
\* (0 - 255 stored as 1), and the raster came back.
C14_PaethWrapped ==
    /\ pc = "done" /\ note.predictor = 4
    /\ img.width = 2 /\ img.height = 2
    /\ img.data = <<255, 0, 100, 255>>
    /\ payload[3] = 1
    /\ res.data = img.data

---------------------------------------------------------------------------
(* compression/vp8_coder.rs: the binary range coder.  low, range and code   *)
(* are u64 fields that hold up to 33 bits; here such a number is a pair     *)
(* <<hi, lo>> standing for hi * 2^16 + lo with lo below 2^16.               *)

\* The pair of hi * 2^16 + lo for any lo.
Wide(hi, lo) == <<hi + lo \div 65536, lo % 65536>>

WideAdd(a, b) == Wide(a[1] + b[1], a[2] + b[2])

\* a - b for a >= b.
WideSub(a, b) ==
    IF a[2] >= b[2] THEN <<a[1] - b[1], a[2] - b[2]>> ELSE <<a[1] - b[1] - 1, a[2] + 65536 - b[2]>>

WideLess(a, b) == a[1] < b[1] \/ (a[1] = b[1] /\ a[2] < b[2])

\* (range * prob) >> 8 with prob clamped to 1..255.
Bound(range, prob) ==
    With(Clamp(prob, 1, 255),
         LAMBDA p : Wide((range[1] * p) \div 256,
                         ((range[1] * p) % 256) * 256 + (range[2] * p) \div 256))

\* x << 8
WideShl8(x) == <<x[1] * 256 + x[2] \div 256, (x[2] % 256) * 256>>

\* (low << 8) & 0xFFFFFFFF
LowShl8(low) == <<(low[1] % 256) * 256 + low[2] \div 256, (low[2] % 256) * 256>>

\* ((low >> 24) & 0xFF) as u8
LowByte(low) == (low[1] \div 256) % 256

\* (low >> 32) != 0
LowCarry(low) == low[1] >= 65536

\* range < 0x1000000
RangeSmall(range) == range[1] < 256

Repeat(v, n) == [i \in 1..n |-> v]

\* RangeEncoder::new; overflowed records a u8 overflow of pending, which
\* panics in a build with overflow checks and wraps in one without.
RangeEncoderNew ==
    [low |-> <<0, 0>>, range |-> <<65535, 65535>>, buffer |-> <<>>, pending |-> 0,
     pending_count |-> 0, overflowed |-> FALSE]

\* RangeEncoder::emit
emit(e, byte) ==
    IF e.pending_count = 0 THEN [e EXCEPT !.pending = byte, !.pending_count = 1]
    ELSE IF byte = 255 THEN [e EXCEPT !.pending_count = @ + 1]
    ELSE [e EXCEPT !.buffer = @ \o <<e.pending>> \o Repeat(255, e.pending_count - 1),
                   !.pending = byte, !.pending_count = 1]

\* An emit_with_carry that lets the carry fall.
emit_without_carry(e, byte, carry) == emit(e, byte)

\* RangeEncoder::emit_with_carry
emit_with_carry(e, byte, carry) ==
    IF ~carry THEN emit(e, byte)
    ELSE emit([e EXCEPT !.buffer = IF e.pending_count >= 2
                                   THEN @ \o <<(e.pending + 1) % 256>> \o Repeat(0, e.pending_count - 2)
                                   ELSE @,
                        !.pending = IF e.pending_count >= 2 THEN 0 ELSE (e.pending + 1) % 256,
                        !.pending_count = 1,
                        !.overflowed = @ \/ e.pending = 255],
              byte)

\* One turn of the byte loop of encode and finish.
ShiftOut(e) ==
    [emit_with_carry(e, LowByte(e.low), LowCarry(e.low)) EXCEPT !.low = LowShl8(e.low)]

\* The while loop of RangeEncoder::encode.
RECURSIVE EncoderRenorm(_)
EncoderRenorm(e) ==
    IF RangeSmall(e.range) THEN EncoderRenorm([ShiftOut(e) EXCEPT !.range = WideShl8(e.range)])
    ELSE e

\* RangeEncoder::encode
RangeEncode(e, bit, prob) ==
    With(Bound(e.range, prob),
         LAMBDA bound :
            EncoderRenorm(IF bit THEN [e EXCEPT !.low = WideAdd(@, bound), !.range = WideSub(@, bound)]
                          ELSE [e EXCEPT !.range = bound]))

\* The pops of finish: zero bytes leave the end while more than one is left.
RECURSIVE StripZeros(_)
StripZeros(b) ==
    IF Len(b) > 1 /\ b[Len(b)] = 0 THEN StripZeros(SubSeq(b, 1, Len(b) - 1)) ELSE b

\* The five bytes finish shifts out of low.
FinishShifts(e) == ShiftOut(ShiftOut(ShiftOut(ShiftOut(ShiftOut(e)))))

\* RangeEncoder::finish
RangeFinish(e) ==
    With(FinishShifts(e),
         LAMBDA f : StripZeros(f.buffer \o <<f.pending>> \o Repeat(255, f.pending_count - 1)))

\* RangeDecoder::read_byte, as the byte and the decoder after it.
read_byte(d) ==
    IF d.pos < Len(d.data) THEN <<d.data[d.pos + 1], [d EXCEPT !.pos = @ + 1]>> ELSE <<0, d>>

\* (code << 8) | byte
CodeShl8Or(code, byte) == <<code[1] * 256 + code[2] \div 256, (code[2] % 256) * 256 + byte>>

\* code = (code << 8) | read_byte()
ReadIntoCode(d) == [read_byte(d)[2] EXCEPT !.code = CodeShl8Or(d.code, read_byte(d)[1])]

\* RangeDecoder::new
RangeDecoderNew(data) ==
    ReadIntoCode(ReadIntoCode(ReadIntoCode(ReadIntoCode(
        [data |-> data, pos |-> 0, range |-> <<65535, 65535>>, code |-> <<0, 0>>]))))

\* The while loop of RangeDecoder::decode.
RECURSIVE DecoderRenorm(_)
DecoderRenorm(d) ==
    IF RangeSmall(d.range) THEN DecoderRenorm([ReadIntoCode(d) EXCEPT !.range = WideShl8(d.range)])
    ELSE d

\* RangeDecoder::decode, as the bit and the decoder after it.
RangeDecode(d, prob) ==
    With(Bound(d.range, prob),
         LAMBDA bound :
            IF ~WideLess(d.code, bound)
            THEN <<TRUE, DecoderRenorm([d EXCEPT !.code = WideSub(@, bound), !.range = WideSub(@, bound)])>>
            ELSE <<FALSE, DecoderRenorm([d EXCEPT !.range = bound])>>)

\* The bits decode gives for the probabilities of coded from i on.
RECURSIVE DecodeBitsFrom(_, _, _)
DecodeBitsFrom(d, coded, i) ==
    IF i > Len(coded) THEN <<>>
    ELSE With(RangeDecode(d, coded[i][2]),
              LAMBDA r : <<r[1]>> \o DecodeBitsFrom(r[2], coded, i + 1))

---------------------------------------------------------------------------
(* SpecRange: bits are encoded one by one, each with its own probability,   *)
(* finish gives the bytes, and a decoder reads the bits back with the same  *)
(* probabilities in the same order.  note.coded keeps the <<bit, prob>>     *)
(* pairs; note.carry_run is the longest pending run a carry went through.   *)

MaxBits == 6

\* Probabilities at both ends and in the middle of 1..255.
Probs == {1, 128, 255}

RangeInit ==
    /\ pc = "coding"
    /\ enc = RangeEncoderNew
    /\ img = NoImage
    /\ payload = <<>>
    /\ stream = <<>>
    /\ res = <<>>
    /\ note = [coded |-> <<>>, carry_run |-> 0]

\* The run a carry out of low goes through when e shifts a byte out.
CarryRun(e, run) == IF LowCarry(e.low) THEN Max2(run, e.pending_count) ELSE run

RcEncode ==
    /\ pc = "coding"
    /\ Len(note.coded) < MaxBits
    /\ \E bit \in BOOLEAN, prob \in Probs :
          /\ enc' = RangeEncode(enc, bit, prob)
          /\ note' = [coded |-> Append(note.coded, <<bit, prob>>),
                      carry_run |-> IF enc'.buffer # enc.buffer \/ enc'.pending_count # enc.pending_count
                                    THEN CarryRun([enc EXCEPT !.low = IF bit THEN WideAdd(@, Bound(enc.range, prob)) ELSE @],
                                                  note.carry_run)
                                    ELSE note.carry_run]
    /\ UNCHANGED <<pc, img, payload, stream, res>>

RcFinish ==
    /\ pc = "coding"
    /\ payload' = RangeFinish(enc)
    /\ enc' = FinishShifts(enc)
    /\ note' = [note EXCEPT !.carry_run = CarryRun(enc, @)]
    /\ pc' = "finished"
    /\ UNCHANGED <<img, stream, res>>

RcDecode ==
    /\ pc = "finished"
    /\ res' = DecodeBitsFrom(RangeDecoderNew(payload), note.coded, 1)
    /\ pc' = "done"
    /\ UNCHANGED <<enc, img, payload, stream, note>>

RangeNext == RcEncode \/ RcFinish \/ RcDecode

SpecRange == RangeInit /\ [][RangeNext]_vars

\* C15: range coder round trip.  For every bit sequence and every per-bit
\* probability in 1..255, RangeDecoder fed the bytes of RangeEncoder::finish
\* and decoding with the same probabilities in the same order gives the
\* sequence back, also when a carry went through pending 0xFF bytes; the
\* pending byte never overflows on the way.
C15_RangeRoundTrip ==
    (pc = "done")
        => /\ Len(res) = Len(note.coded)
           /\ \A i \in 1..Len(res) : res[i] = note.coded[i][1]
           /\ ~enc.overflowed

\* A sequence whose carry went through a pending byte followed by two
\* pending 0xFF bytes has been decoded back.
C15_CarryThroughPending ==
    /\ pc = "done"
    /\ note.carry_run >= 3
    /\ Len(res) = Len(note.coded)
    /\ \A i \in 1..Len(res) : res[i] = note.coded[i][1]

---------------------------------------------------------------------------
(* SpecGolomb: write_exp_golomb writes one value after a few bits already   *)
(* in the writer, finish pads the last byte, and read_exp_golomb reads the  *)
(* value from where those bits end.                                         *)

\* The largest value written: the claim's 0..65535 holds every value
\* encode_block passes, a run below 32 or a magnitude less one below 32768.
MaxGolomb == 65535

\* The count of bits written before the value v: every place in a byte.
LeadOf(v) == v % 8

GolombInit ==
    /\ pc = "start"
    /\ enc = ConfigDefault
    /\ img = NoImage
    /\ payload = <<>>
    /\ stream = <<>>
    /\ res = <<0, 0>>
    /\ note \in {[val |-> v, lead |-> LeadOf(v)] : v \in 0..MaxGolomb}

WriteExpGolomb ==
    /\ pc = "start"
    /\ payload' = BitWriterFinish(Repeat(1, note.lead) \o ExpGolombBits(note.val))
    /\ pc' = "written"
    /\ UNCHANGED <<enc, img, stream, res, note>>

ReadExpGolomb ==
    /\ pc = "written"
    /\ res' = read_exp_golomb(payload, note.lead)
    /\ pc' = "done"
    /\ UNCHANGED <<enc, img, payload, stream, note>>

GolombNext == WriteExpGolomb \/ ReadExpGolomb

SpecGolomb == GolombInit /\ [][GolombNext]_vars

\* C16: Exp-Golomb round trip.  For every value u of 0..65535, which holds
\* every value the coefficient coder writes, read_exp_golomb on the bits of
\* write_exp_golomb(u) returns u and stops right after those bits.
C16_ExpGolombRoundTrip ==
    (pc = "done")
        => /\ res[1] = note.val
           /\ res[2] = note.lead + Len(ExpGolombBits(note.val))

\* The value 65535, written as 16 zeros and 17 bits, has been read back.
C16_LargestRead ==
    /\ pc = "done" /\ note.val = 65535 /\ note.lead = 7
    /\ res = <<65535, 40>>

---------------------------------------------------------------------------
(* SpecZig: zigzag_scan then zigzag_unscan on blocks that tell every index  *)
(* apart: ramps, whose 64 entries differ, and blocks with one entry at an   *)
(* end of i16.                                                              *)

\* The block whose entry i is i * step.
Ramp(step) == [i \in 1..64 |-> i * step]

\* The zero block with v at index k.
UnitBlock(k, v) == [i \in 1..64 |-> IF i = k THEN v ELSE 0]

ZigBlocks ==
    {Ramp(step) : step \in {-512, -1, 1, 511}}
    \cup {UnitBlock(k, v) : k \in 1..64, v \in {-32768, 32767}}

ZigInit ==
    /\ pc = "start"
    /\ enc = ConfigDefault
    /\ img = NoImage
    /\ payload = <<>>
    /\ stream = <<>>
    /\ res = <<>>
    /\ note \in [block : ZigBlocks]

ZigzagScan ==
    /\ pc = "start"
    /\ payload' = zigzag_scan(note.block)
    /\ pc' = "scanned"
    /\ UNCHANGED <<enc, img, stream, res, note>>

ZigzagUnscan ==
    /\ pc = "scanned"
    /\ res' = zigzag_unscan(payload)
    /\ pc' = "done"
    /\ UNCHANGED <<enc, img, payload, stream, note>>

ZigNext == ZigzagScan \/ ZigzagUnscan

SpecZig == ZigInit /\ [][ZigNext]_vars

\* C17: zig-zag self-inversion.  ZIGZAG_ORDER is a permutation of 0..63,
\* so zigzag_unscan(zigzag_scan(b)) = b for a 64-element block b.
C17_ZigzagInverts ==
    /\ Len(ZIGZAG_ORDER) = 64
    /\ {ZIGZAG_ORDER[i] : i \in 1..64} = 0..63
    /\ (pc = "done") => (res = note.block)

\* The ramp 1..64 has been scanned, its entry of index 8 moved to place 2,
\* and unscanned back.
C17_RampUnscanned ==
    /\ pc = "done"
    /\ note.block = Ramp(1)
    /\ payload[3] = 9 /\ payload # note.block
    /\ res = note.block

---------------------------------------------------------------------------
(* SpecIntra: compress_lossy_v3 selects the intra mode of one block at      *)
(* block position (bx, by) from the block and its neighbours and records    *)
(* it.  The blocks are those each of the eleven modes predicts exactly from *)
(* the neighbours, so that every mode is the best one somewhere, and flat   *)
(* and checkered ones.                                                      *)

IntraEdges ==
    {GreyEdge, [i \in 1..8 |-> 30 * i], <<10, 200, 30, 47, 50, 61, 70, 255>>}

IntraBlocks(top, left, top_left) ==
    {predict(m, top, left, top_left) : m \in 0..10}
    \cup {[i \in 1..64 |-> v] : v \in {0, 255}}
    \cup {[i \in 1..64 |-> IF (((i - 1) % 8) + ((i - 1) \div 8)) % 2 = 0 THEN 0 ELSE 255]}

IntraInit ==
    /\ pc = "start"
    /\ enc \in {ConfigDefault, ConfigFastLossy(50)}
    /\ img = NoImage
    /\ payload = <<>>
    /\ stream = <<>>
    /\ res = [mode |-> 0]
    /\ \E top \in IntraEdges, left \in IntraEdges, top_left \in {0, 128} :
          \E block \in IntraBlocks(top, left, top_left) :
              note \in [block : {block}, top : {top}, left : {left}, top_left : {top_left},
                        bx : 0..1, by : 0..1, is_chroma : BOOLEAN]

SelectMode ==
    /\ pc = "start"
    /\ res' = [mode |-> BlockModeV3(enc, note.is_chroma, note.block, note.top, note.left,
                                    note.top_left, note.bx, note.by)]
    /\ payload' = <<res'.mode>>
    /\ pc' = "done"
    /\ UNCHANGED <<enc, img, stream, note>>

IntraNext == SelectMode

SpecIntra == IntraInit /\ [][IntraNext]_vars

\* C18: intra edge safety.  For every block of the first block row or the
\* first block column, whatever the block and its neighbours hold, the mode
\* the encoder selects and records is DC, Horizontal or Vertical.
C18_EdgeModeSafe ==
    (pc = "done" /\ (note.bx = 0 \/ note.by = 0))
        => (res.mode \in {IntraDC, IntraHorizontal, IntraVertical} /\ payload = <<res.mode>>)

\* A luma block of the first block row that every one of the eleven modes
\* would be compared for elsewhere, and a mode outside the three would win,
\* has been given one of the three.
C18_EdgeBlockRestricted ==
    /\ pc = "done" /\ enc.use_intra_prediction /\ ~note.is_chroma
    /\ note.by = 0 /\ note.bx = 1
    /\ select_best_mode_edge(note.block, note.top, note.left, note.top_left, FALSE, FALSE) > IntraVertical
    /\ res.mode \in {IntraDC, IntraHorizontal, IntraVertical}

---------------------------------------------------------------------------
(* SpecQp: compute_qp of the quantizer of every quality on BlockStats whose *)
(* fields lie on, just under and just over every threshold of               *)
(* needs_fallback and compute_qp, and far beyond them.                      *)

StatMeans == {0, 4999, 5000, 39999, 40000, 128000, 215001, 250000, 250001}

StatVariances == {0, 999, 1000, 49999, 50000, 1500001, 5000000, 5000001, 10000001}

StatEdges == {0, 29, 30, 250, 251, 201000}

QpInit ==
    /\ pc = "start"
    /\ enc \in {AdaptiveQuantizerNew(q) : q \in 1..100}
    /\ img = NoImage
    /\ payload = <<>>
    /\ stream = <<>>
    /\ res = [qp |-> 0]
    /\ note \in [mean : StatMeans, variance : StatVariances, edge_density : StatEdges,
                 contrast : {500}, is_extreme : BOOLEAN]

ComputeQp ==
    /\ pc = "start"
    /\ res' = [qp |-> compute_qp(enc, note)]
    /\ pc' = "done"
    /\ UNCHANGED <<enc, img, payload, stream, note>>

QpNext == ComputeQp

SpecQp == QpInit /\ [][QpNext]_vars

\* The QP lies in [max(1, quality - 10), min(100, quality + 10)].
QpInRange ==
    /\ res.qp >= Max2(1, enc.base_qp - 10)
    /\ res.qp <= Min2(100, enc.base_qp + 10)

\* C19: QP clamping.  For every quality of 1..100 and every BlockStats
\* compute_qp returns a value in [max(1, quality - 10), min(100, quality +
\* 10)], and it returns base_qp when is_extreme is set, the variance is over
\* 5000 or under 1, or the mean is under 5 or over 250.
C19_QpClamped ==
    (pc = "done")
        => /\ QpInRange
           /\ (note.is_extreme \/ note.variance > Milli(5000) \/ note.variance < Milli(1)
               \/ note.mean < Milli(5) \/ note.mean > Milli(250)) => res.qp = enc.base_qp

\* C19 as stated: base_qp is returned when the variance is over 10000, the
\* edge measure is over 200, or the mean is under 5 or over 250.
C19_BaseOnStatedExtremes ==
    (pc = "done")
        => /\ QpInRange
           /\ (note.variance > Milli(10000) \/ note.edge_density > Milli(200)
               \/ note.mean < Milli(5) \/ note.mean > Milli(250)) => res.qp = enc.base_qp

\* The quantizer of quality 100 has been given stats worth an offset of +3
\* and returned 100.
C19_ClampedAtTop ==
    /\ pc = "done" /\ enc.base_qp = 100
    /\ ~needs_fallback(note) /\ QpAdjust(note) = 3
    /\ res.qp = 100

---------------------------------------------------------------------------
(* compression/deblocking.rs.  A plane is its bytes in row-major order; a   *)
(* filter site is the six 0-based indices <<p2, p1, p0, q0, q1, q2>> across *)
(* a block edge, in a row for a vertical edge and in a column for a         *)
(* horizontal one.                                                          *)

\* A from_quality without the gate at 97.
DeblockFromQualityUngated(quality) ==
    [strength |-> 3, sharpness |-> 6, edge_threshold |-> 10, q_scale |-> 4,
     simple |-> TRUE, enabled |-> TRUE]

\* DeblockConfig::from_quality
DeblockFromQuality(quality) ==
    IF quality >= 97
    THEN [strength |-> 0, sharpness |-> 7, edge_threshold |-> 5, q_scale |-> 4,
          simple |-> TRUE, enabled |-> FALSE]
    ELSE [strength |-> IF quality >= 95 THEN 3 ELSE IF quality >= 90 THEN 6
                       ELSE IF quality >= 85 THEN 10 ELSE IF quality >= 80 THEN 18
                       ELSE IF quality >= 70 THEN 28 ELSE 40,
          sharpness |-> IF quality >= 90 THEN 6 ELSE IF quality >= 80 THEN 5 ELSE 3,
          edge_threshold |-> IF quality >= 90 THEN 10 ELSE IF quality >= 80 THEN 15 ELSE 20,
          q_scale |-> 4,
          simple |-> quality >= 92,
          enabled |-> TRUE]

\* DeblockingFilter::apply_sharpness
apply_sharpness(level, sharpness) == Max2((level * (8 - Min2(sharpness, 7))) \div 8, 1)

\* The Samples gathered at a site.
SamplesAt(data, site) ==
    [p2 |-> data[site[1] + 1], p1 |-> data[site[2] + 1], p0 |-> data[site[3] + 1],
     q0 |-> data[site[4] + 1], q1 |-> data[site[5] + 1], q2 |-> data[site[6] + 1]]

\* DeblockingFilter::should_filter
should_filter(s, edge_th, level) ==
    \/ Abs(s.p0 - s.q0) <= edge_th
    \/ (Abs(s.p0 - s.q0) < level * 4 /\ Max2(Abs(s.p1 - s.p0), Abs(s.q1 - s.q0)) < level * 2)

\* DeblockingFilter::is_flat
is_flat(s, level) ==
    Max2(Max2(Abs(s.p2 - s.p1), Abs(s.p1 - s.p0)), Max2(Abs(s.q1 - s.q0), Abs(s.q2 - s.q1))) < level

\* DeblockingFilter::is_strong_flat
is_strong_flat(s, level) == is_flat(s, level) /\ Abs(s.p0 - s.q0) < Max2(level \div 2, 1)

\* apply_simple_v, apply_simple_h
apply_simple(data, site, level) ==
    With(Clamp(TruncDiv((data[site[4] + 1] - data[site[3] + 1]) * 3, 8), -level, level),
         LAMBDA delta :
            [data EXCEPT ![site[3] + 1] = Clamp(data[site[3] + 1] + delta, 0, 255),
                         ![site[4] + 1] = Clamp(data[site[4] + 1] - delta, 0, 255)])

\* apply_normal_v, apply_normal_h; >> is the shift of a signed number.
apply_normal(data, site, level) ==
    With(SamplesAt(data, site),
         LAMBDA s :
            With(Clamp((3 * (s.q0 - s.p0) + Clamp(s.p1 - s.q1, -128, 127) + 4) \div 8, -level, level),
                 LAMBDA delta :
                    [data EXCEPT ![site[3] + 1] = Clamp(s.p0 + delta, 0, 255),
                                 ![site[4] + 1] = Clamp(s.q0 - delta, 0, 255),
                                 ![site[2] + 1] = Clamp(s.p1 + (delta + 1) \div 2, 0, 255),
                                 ![site[5] + 1] = Clamp(s.q1 - (delta + 1) \div 2, 0, 255)]))

\* A strong filter whose taps for p1 weigh 2, 2, 2, 1 (seven sixths).
apply_strong_heavy(data, site) ==
    With(SamplesAt(data, site),
         LAMBDA s :
            [data EXCEPT ![site[2] + 1] = Clamp((s.p2 * 2 + s.p1 * 2 + s.p0 * 2 + s.q0 + 3) \div 6, 0, 255),
                         ![site[3] + 1] = Clamp((s.p1 + s.p0 * 2 + s.q0 * 2 + s.q1 + 3) \div 6, 0, 255),
                         ![site[4] + 1] = Clamp((s.p0 + s.q0 * 2 + s.q1 * 2 + s.q2 + 3) \div 6, 0, 255),
                         ![site[5] + 1] = Clamp((s.q0 + s.q1 * 2 + s.q2 * 2 + s.q2 + 3) \div 6, 0, 255)])

\* apply_strong_v, apply_strong_h
apply_strong(data, site) ==
    With(SamplesAt(data, site),
         LAMBDA s :
            [data EXCEPT ![site[2] + 1] = Clamp((s.p2 + s.p1 * 2 + s.p0 * 2 + s.q0 + 3) \div 6, 0, 255),
                         ![site[3] + 1] = Clamp((s.p1 + s.p0 * 2 + s.q0 * 2 + s.q1 + 3) \div 6, 0, 255),
                         ![site[4] + 1] = Clamp((s.p0 + s.q0 * 2 + s.q1 * 2 + s.q2 + 3) \div 6, 0, 255),
                         ![site[5] + 1] = Clamp((s.q0 + s.q1 * 2 + s.q2 * 2 + s.q2 + 3) \div 6, 0, 255)])

\* The body of the loops of filter_edge_v and filter_edge_h at one site.
FilterSite(cfg, data, site, level) ==
    IF ~should_filter(SamplesAt(data, site), cfg.edge_threshold, level) THEN data
    ELSE IF cfg.simple THEN apply_simple(data, site, level)
    ELSE IF is_strong_flat(SamplesAt(data, site), level) THEN apply_strong(data, site)
    ELSE IF is_flat(SamplesAt(data, site), level) THEN apply_normal(data, site, level)
    ELSE apply_simple(data, site, level)

\* gather_samples_v at (x, y): the site, or <<>> for None.
gather_samples_v(stride, x, y, w, h) ==
    IF x < 3 \/ x + 2 >= w \/ y >= h THEN <<>>
    ELSE [k \in 1..6 |-> y * stride + x - 4 + k]

\* gather_samples_h at (x, y): the site, or <<>> for None.
gather_samples_h(stride, x, y, w, h) ==
    IF y < 3 \/ y + 2 >= h \/ x >= w THEN <<>>
    ELSE [k \in 1..6 |-> (y - 4 + k) * stride + x]

\* The site of turn k (from 0) of the first loops of deblock_plane, over
\* by in 0..bh, bx in 1..bw and the rows of filter_edge_v.
VerticalSite(k, bw, w, h, stride, block) ==
    gather_samples_v(stride, (((k \div block) % (bw - 1)) + 1) * block,
                     ((k \div block) \div (bw - 1)) * block + (k % block), w, h)

\* The site of turn k (from 0) of the second loops of deblock_plane, over
\* by in 1..bh, bx in 0..bw and the columns of filter_edge_h.
HorizontalSite(k, bw, w, h, stride, block) ==
    gather_samples_h(stride, ((k \div block) % bw) * block + (k % block),
                     (((k \div block) \div bw) + 1) * block, w, h)

\* The sites deblock_plane visits, in its order, None left out.
DeblockSites(w, h, stride, block) ==
    With(<<(w + block - 1) \div block, (h + block - 1) \div block>>,
         LAMBDA b :
            SelectSeq([k \in 1..(b[2] * (b[1] - 1) * block) |->
                          VerticalSite(k - 1, b[1], w, h, stride, block)]
                      \o [k \in 1..((b[2] - 1) * b[1] * block) |->
                             HorizontalSite(k - 1, b[1], w, h, stride, block)],
                      LAMBDA site : site # <<>>))

RECURSIVE FilterSites(_, _, _, _, _)
FilterSites(cfg, data, sites, i, level) ==
    IF i > Len(sites) THEN data
    ELSE FilterSites(cfg, FilterSite(cfg, data, sites[i], level), sites, i + 1, level)

\* The level filter_edge_v and filter_edge_h work with.
EffLevel(level, chroma) == IF chroma THEN (level * 3) \div 4 ELSE level

\* DeblockingFilter::deblock_plane
deblock_plane(cfg, data, w, h, stride, block, chroma) ==
    IF cfg.strength = 0 THEN data
    ELSE With(EffLevel(apply_sharpness(cfg.strength, cfg.sharpness), chroma),
              LAMBDA level :
                 IF level <= 0 THEN data
                 ELSE FilterSites(cfg, data, DeblockSites(w, h, stride, block), 1, level))

\* DeblockingFilter::apply
DeblockApply(cfg, data, width, height, block_size) ==
    IF ~cfg.enabled THEN data ELSE deblock_plane(cfg, data, width, height, width, block_size, FALSE)

\* DeblockingFilter::apply_chroma
apply_chroma(cfg, data, width, height, block_size) ==
    IF ~cfg.enabled THEN data ELSE deblock_plane(cfg, data, width, height, width, block_size, TRUE)

\* DeblockingFilter::apply_channel
apply_channel(cfg, channel, width, height) ==
    IF ~cfg.enabled THEN channel ELSE DeblockApply(cfg, channel, width, height, 8)

---------------------------------------------------------------------------
(* SpecDeblock: a filter is built from a quality and applied to a plane     *)
(* through apply, apply_chroma or apply_channel.  The planes have a step    *)
(* from a to b at the block edge: a row and a column of 11 samples (one     *)
(* edge of 8-blocks) and a square of 8x8 (edges of 4-blocks both ways).     *)

DeblockQualities == {50, 85, 92, 96, 97, 98, 100, 255}

StepValues == {0, 100, 103, 110, 255}

\* The plane of w x h whose samples left of column ex and above row ey are
\* a, the others b.
StepPlane(w, h, ex, ey, a, b) ==
    [width |-> w, height |-> h, channels |-> 1,
     data |-> [k \in 1..(w * h) |-> IF (k - 1) % w < ex /\ (k - 1) \div w < ey THEN a ELSE b]]

StepPlanes ==
    {StepPlane(11, 1, 8, 1, a, b) : a \in StepValues, b \in StepValues}
    \cup {StepPlane(1, 11, 1, 8, a, b) : a \in StepValues, b \in StepValues}
    \cup {StepPlane(8, 8, 4, 4, a, b) : a \in StepValues, b \in StepValues}

DeblockCalls ==
    {[call |-> c, block_size |-> n] : c \in {"apply", "apply_chroma"}, n \in {4, 8}}
    \cup {[call |-> "apply_channel", block_size |-> 8]}

\* The plane after the call named by c.
DeblockCall(cfg, c, plane) ==
    CASE c.call = "apply" -> DeblockApply(cfg, plane.data, plane.width, plane.height, c.block_size)
      [] c.call = "apply_chroma" -> apply_chroma(cfg, plane.data, plane.width, plane.height, c.block_size)
      [] c.call = "apply_channel" -> apply_channel(cfg, plane.data, plane.width, plane.height)

DeblockInit ==
    /\ pc = "start"
    /\ \E q \in DeblockQualities :
          /\ enc = DeblockFromQuality(q)
          /\ note \in {[quality |-> q, call |-> c.call, block_size |-> c.block_size] : c \in DeblockCalls}
    /\ img \in StepPlanes
    /\ payload = <<>>
    /\ stream = <<>>
    /\ res = NoResult

ApplyDeblock ==
    /\ pc = "start"
    /\ payload' = DeblockCall(enc, note, img)
    /\ pc' = "done"
    /\ UNCHANGED <<enc, img, stream, res, note>>

DeblockNext == ApplyDeblock

SpecDeblock == DeblockInit /\ [][DeblockNext]_vars

\* C20: deblocking quality gate.  For every quality of 97 and more, apply,
\* apply_chroma and apply_channel of the filter built from that quality
\* leave every byte of the plane as it was.
C20_HighQualityUntouched ==
    (pc = "done" /\ note.quality >= 97) => payload = img.data

\* A plane that the filter of quality 96 changes has gone through
\* apply_channel of the filter of quality 97 and come out unchanged.
C20_GateKeptPlane ==
    /\ pc = "done" /\ note.quality = 97 /\ note.call = "apply_channel"
    /\ apply_channel(DeblockFromQuality(96), img.data, img.width, img.height) # img.data
    /\ payload = img.data

---------------------------------------------------------------------------
(* SpecFlat: the filter of a quality is applied to a plane of equal samples *)
(* (8x8, edges of 4-blocks and of 8-blocks) or to a row or a column of 8    *)
(* samples with one edge of 4-blocks, whose six samples at the edge take    *)
(* every combination of values at and near the two ends of the byte range.  *)

FlatValues == {0, 1, 128, 254, 255}

FlatQualities == 0..100 \cup {255}

EdgeValues == {0, 5, 250, 255}

EdgeQualities == {50, 80, 85, 92, 96}

\* The plane of w x h whose samples are all v.
FlatPlane(w, h, v) == StepPlane(w, h, w, h, v, v)

\* The row (across = FALSE: the column) of 8 samples holding the six
\* samples s at its middle.
EdgeLine(s, across) ==
    [width |-> IF across THEN 1 ELSE 8, height |-> IF across THEN 8 ELSE 1, channels |-> 1,
     data |-> <<s[1]>> \o s \o <<s[6]>>]

IsFlat(data) == \A i \in 1..Len(data) : data[i] = data[1]

FlatInit ==
    /\ pc = "start"
    /\ \/ /\ \E q \in FlatQualities :
                /\ enc = DeblockFromQuality(q)
                /\ note \in {[quality |-> q, call |-> c.call, block_size |-> c.block_size] : c \in DeblockCalls}
          /\ img \in {FlatPlane(8, 8, v) : v \in FlatValues}
       \/ /\ \E q \in EdgeQualities :
                /\ enc = DeblockFromQuality(q)
                /\ note \in {[quality |-> q, call |-> c, block_size |-> 4] : c \in {"apply", "apply_chroma"}}
          /\ img \in {EdgeLine(s, across) : s \in [1..6 -> EdgeValues], across \in BOOLEAN}
    /\ payload = <<>>
    /\ stream = <<>>
    /\ res = NoResult

SpecFlat == FlatInit /\ [][DeblockNext]_vars

\* C21: for every quality the deblocking filter leaves a plane of equal
\* samples unchanged, and every sample of every plane it returns lies in
\* 0..255.
C21_FlatKeptAndInRange ==
    (pc = "done")
        => /\ IsFlat(img.data) => payload = img.data
           /\ \A i \in 1..Len(payload) : payload[i] >= 0 /\ payload[i] <= 255

\* The filter of quality 80 has smoothed an edge beside samples of 255
\* through apply_normal and the sample it pushes upwards stayed at 255.
C21_ClampedAtWhite ==
    /\ pc = "done" /\ note.quality = 80 /\ note.call = "apply"
    /\ img.data = <<255, 255, 255, 250, 255, 255, 255, 255>>
    /\ payload # img.data
    /\ payload[3] = 255

\* A plane of equal samples has gone through the strong filter of quality
\* 50 and come out as it was.
C21_FlatFiltered ==
    /\ pc = "done" /\ note.quality = 50 /\ note.call = "apply" /\ note.block_size = 4
    /\ img.data = FlatPlane(8, 8, 255).data
    /\ is_strong_flat(SamplesAt(img.data, gather_samples_v(8, 4, 0, 8, 8)), apply_sharpness(enc.strength, enc.sharpness))
    /\ payload = img.data

---------------------------------------------------------------------------
(* SpecDispatch: a lossy engine of every quality and every setting of the   *)
(* three flags that choose between the v3 and the legacy encoder compresses *)
(* a mid-grey raster of one or of three channels, and decompress reads the  *)
(* payload back.                                                            *)

DispatchConfigs ==
    {[mode |-> "Lossy", quality |-> q, use_optimal_predictor |-> FALSE, use_cabac |-> c,
      use_intra_prediction |-> i, use_adaptive_quant |-> a, use_simd |-> TRUE] :
        q \in 1..100, c \in BOOLEAN, i \in BOOLEAN, a \in BOOLEAN}

DispatchRasters == {r \in GreyRasters : r.width * r.height = 1 /\ r.channels \in {1, 3}}

DispatchInit ==
    /\ pc = "start"
    /\ enc \in DispatchConfigs
    /\ img \in DispatchRasters
    /\ payload = <<>>
    /\ stream = <<>>
    /\ res = NoResult
    /\ note = Undamaged(img)

DispatchNext == EngineCompress \/ EngineDecompress

SpecDispatch == DispatchInit /\ [][DispatchNext]_vars

\* The encoder compress_lossy takes for a configuration.
EncoderPath(cfg) ==
    IF cfg.use_cabac \/ cfg.use_intra_prediction \/ cfg.use_adaptive_quant
    THEN "lossy_v3" ELSE "lossy_legacy"

\* C22: lossy path dispatch.  For every lossy configuration and every
\* quality of 1..100 the payload of the v3 encoder is decoded by the v3
\* decoder and the payload of the legacy encoder by the legacy decoder.
C22_DispatchFollowsEncoder ==
    (pc = "done") => res.path = EncoderPath(enc)

\* The payload of the legacy encoder of quality 100, whose first table byte
\* is 1, has been handed to the v3 decoder.
C22_LegacyReadAsV3 ==
    /\ pc = "done" /\ enc.quality = 100 /\ EncoderPath(enc) = "lossy_legacy"
    /\ payload[1] = 1 /\ Len(payload) > 259
    /\ res.path = "lossy_v3"
    /\ res.kind # "Ok"

---------------------------------------------------------------------------
(* SpecPar: compress_lossy_legacy with its par_iter over the blocks of a    *)
(* channel run by a pool of workers.  A worker takes any pair (bx, by) not  *)
(* yet taken, runs the closure on it and delivers the result to collect;    *)
(* when every pair of the channel is delivered the blocks are appended to   *)
(* all_coeffs and the next channel starts; after the last channel the       *)
(* coefficients are entropy coded.  The rasters have four blocks of a       *)
(* different value each (16x16 and, padded, 9x9) or two blocks in each of   *)
(* three channels (16x8).  note.order lists the deliveries <<ch, k>>.       *)

Workers == 1..MaxWorkers

\* The raster whose samples are a, b, c, d in the four quadrants cut at
\* column 8 and row 8, each raised by 4 per channel.
QuadRaster(w, h, ch_count, q) ==
    ImageOf(<<w, h, ch_count>>,
            [n \in 1..(w * h * ch_count) |->
                q[1 + (IF ((n - 1) \div ch_count) % w >= 8 THEN 1 ELSE 0)
                    + (IF ((n - 1) \div ch_count) \div w >= 8 THEN 2 ELSE 0)]
                + 4 * ((n - 1) % ch_count)])

ParRasters ==
    {QuadRaster(16, 16, 1, <<100, 120, 140, 160>>),
     QuadRaster(9, 9, 1, <<0, 255, 128, 64>>),
     QuadRaster(16, 8, 3, <<100, 120, 100, 120>>)}

\* The state of the channel loop at the start of channel ch.
ChannelStart(image, ch, all_coeffs, order) ==
    [ch |-> ch,
     pending |-> 0..(BlockCount(image.width, image.height) - 1),
     running |-> [w \in Workers |-> -1],
     blocks |-> [k \in 1..BlockCount(image.width, image.height) |-> <<>>],
     arrived |-> 0,
     all_coeffs |-> all_coeffs,
     order |-> order]

ParInit ==
    /\ pc = "blocks"
    /\ enc = ConfigFastLossy(50)
    /\ img \in ParRasters
    /\ payload = <<>>
    /\ stream = <<>>
    /\ res = NoResult
    /\ note = ChannelStart(img, 0, <<>>, <<>>)

\* A worker takes a pair that no worker has taken.
ParTake ==
    /\ pc = "blocks"
    /\ \E w \in Workers, k \in note.pending :
          /\ note.running[w] = -1
          /\ note' = [note EXCEPT !.running[w] = k, !.pending = @ \ {k}]
    /\ UNCHANGED <<pc, enc, img, payload, stream, res>>

\* A worker ends the closure on its pair and delivers the block.
ParDeliver ==
    /\ pc = "blocks"
    /\ \E w \in Workers :
          /\ note.running[w] >= 0
          /\ note' = [note EXCEPT
                         !.running[w] = -1,
                         !.blocks[CollectSlot(note.running[w], note.arrived)] =
                             BlockCoeffsLegacy(enc, img.data, img.width, img.height, img.channels,
                                               note.ch, note.running[w]),
                         !.arrived = @ + 1,
                         !.order = Append(@, <<note.ch, note.running[w]>>)]
    /\ UNCHANGED <<pc, enc, img, payload, stream, res>>

\* collect() returns; the blocks are appended and the next channel starts.
ParCollect ==
    /\ pc = "blocks"
    /\ note.arrived = BlockCount(img.width, img.height)
    /\ note' = ChannelStart(img, note.ch + 1, note.all_coeffs \o ExtendAll(note.blocks, 1), note.order)
    /\ pc' = IF note.ch + 1 >= img.channels THEN "entropy" ELSE "blocks"
    /\ UNCHANGED <<enc, img, payload, stream, res>>

\* encode_rle_huffman of all_coeffs behind the two tables.
ParEntropy ==
    /\ pc = "entropy"
    /\ payload' = LegacyOutput(enc, note.all_coeffs)
    /\ pc' = "done"
    /\ UNCHANGED <<enc, img, stream, res, note>>

ParNext == ParTake \/ ParDeliver \/ ParCollect \/ ParEntropy

SpecPar == ParInit /\ [][ParNext]_vars

\* C23: for every schedule of the workers the coefficients handed to the
\* entropy coder list the blocks in row-major order, channel after channel,
\* and the encoded bytes are those of the raster and the configuration
\* alone.
C23_BlockOrderKept ==
    /\ (pc \in {"entropy", "done"})
          => note.all_coeffs = AllCoeffsLegacy(enc, img.data, img.width, img.height, img.channels, 0)
    /\ (pc = "done")
          => payload = compress_lossy_legacy(enc, img.data, img.width, img.height, img.channels)

\* The four blocks of a raster were delivered last block first, and the
\* coefficients, which differ from block to block, were coded in row-major
\* order.
C23_ReversedDeliveries ==
    /\ pc = "done"
    /\ note.order = <<<<0, 3>>, <<0, 2>>, <<0, 1>>, <<0, 0>>>>
    /\ \A k \in 0..3 : SubSeq(note.all_coeffs, 64 * k + 1, 64 * k + 64)
                          = BlockCoeffsLegacy(enc, img.data, img.width, img.height, 1, 0, k)
    /\ \A k \in 1..3 : note.all_coeffs[64 * k + 1] # note.all_coeffs[1]

---------------------------------------------------------------------------
(* SpecCustom: a lossless encoder is given a WkMetadata whose custom       *)
(* record sets any of its five fields, encodes a one-pixel raster, and the *)
(* stream is decoded.                                                      *)

CustomMetadatas ==
    [icc_profile : {"None", "srgb"}, exif : {"None", "new"}, xmp : {"None", "new"}, custom : Customs]

CustomInit ==
    /\ pc = "built"
    /\ enc = WkEncoderLossless
    /\ img = ImageOf(<<1, 1, 1>>, <<128>>)
    /\ payload = <<>>
    /\ stream = <<>>
    /\ res = NoResult
    /\ note = [damage |-> "none", at |-> 0]

\* WkEncoder::with_metadata with any metadata of the model.
WithCustom ==
    /\ pc = "built"
    /\ \E m \in CustomMetadatas : enc' = with_metadata(enc, m)
    /\ UNCHANGED <<pc, img, payload, stream, res, note>>

CustomNext == WithCustom \/ Encode \/ Decode

SpecCustom == CustomInit /\ [][CustomNext]_vars

\* C24: metadata preservation.  For every WkMetadata given to the encoder,
\* the metadata decode returns for the encoded stream equals it in its
\* EXIF, ICC, XMP and custom parts, including a custom record that sets
\* only description, software or created_at.
C24_MetadataPreserved ==
    (pc = "done") => (res.kind = "Ok" /\ res.metadata = enc.metadata)

\* A custom record that sets only its description was given to the
\* encoder, no CUST chunk was written, and decode returned the default
\* custom record.
C24_DescriptionLost ==
    /\ pc = "done" /\ res.kind = "Ok"
    /\ enc.metadata.custom = [CustomDefault EXCEPT !.description = <<100>>]
    /\ \A i \in 1..Len(Layout(stream).spans) : Layout(stream).spans[i].tag # TagCUST
    /\ res.metadata.custom = CustomDefault

\* A custom record with an author and a description came back whole, and
\* so did the three other items.
C24_AuthoredKept ==
    /\ pc = "done" /\ res.kind = "Ok"
    /\ enc.metadata.custom = [CustomDefault EXCEPT !.author = <<97>>, !.description = <<100>>]
    /\ enc.metadata.icc_profile # "None" /\ enc.metadata.exif # "None" /\ enc.metadata.xmp # "None"
    /\ res.metadata = enc.metadata

---------------------------------------------------------------------------
(* SpecBlocks: encode_coefficients writes a sequence of blocks one after   *)
(* the other into a writer, and decode_coefficients reads as many blocks   *)
(* back from the bytes.                                                    *)

\* The largest count of blocks in a sequence.
MaxBlocks == 2

\* The block that holds the values of f at its indices (from 0) and zeros
\* elsewhere.
Sparse(f) == [i \in 1..64 |-> IF (i - 1) \in DOMAIN f THEN f[i - 1] ELSE 0]

\* Blocks whose last non-zero coefficient is at every index.
LastAtBlocks == {Sparse(k :> 1) : k \in 0..63}

\* Blocks with a zero run above 32, values at the limits of i16, values on
\* both sides of 127, and a last non-zero coefficient at 62 and at 63.
MixedBlocks ==
    {Sparse(<<>>), Sparse(0 :> -3 @@ 1 :> 1), Sparse(40 :> 7), Sparse(5 :> 128 @@ 20 :> -129),
     Sparse(0 :> 32767 @@ 1 :> -32767), Sparse(0 :> -32768),
     Sparse(0 :> 1 @@ 62 :> -1), Sparse(0 :> 2 @@ 63 :> 1)}

\* The sequences encoded: one block of either set, or up to MaxBlocks of
\* the second.
BlockSeqs ==
    {<<b>> : b \in LastAtBlocks} \cup UNION {[1..n -> MixedBlocks] : n \in 1..MaxBlocks}

BlocksInit ==
    /\ pc = "encoding"
    /\ enc = ConfigDefault
    /\ img \in BlockSeqs
    /\ payload = <<>>
    /\ stream = <<>>
    /\ res = [kind |-> "None", blocks |-> <<>>]
    /\ note = [written |-> 0]

\* encode_coefficients for the next block of the sequence.
EncodeCoefficients ==
    /\ pc = "encoding"
    /\ payload' = payload \o encode_coefficients(img[note.written + 1])
    /\ note' = [written |-> note.written + 1]
    /\ pc' = IF note.written + 1 = Len(img) THEN "encoded" ELSE "encoding"
    /\ UNCHANGED <<enc, img, stream, res>>

\* decode_coefficients once per block.  `-(abs_val as i16)` for the
\* magnitude 32768 overflows: it wraps in a build without overflow checks
\* and panics in one with them.
DecodeCoefficients ==
    /\ pc = "encoded"
    /\ LET blocks == decode_coefficients(payload, 0, Len(img))
       IN res' \in {[kind |-> "Ok", blocks |-> blocks]}
                      \cup (IF \E k \in 1..Len(blocks) : \E i \in 1..64 : blocks[k][i] = -32768
                            THEN {[kind |-> "Panic", blocks |-> <<>>]} ELSE {})
    /\ pc' = "done"
    /\ UNCHANGED <<enc, img, payload, stream, note>>

BlocksNext == EncodeCoefficients \/ DecodeCoefficients

SpecBlocks == BlocksInit /\ [][BlocksNext]_vars

\* C25: coefficient block coder round trip.  For every sequence of
\* 64-coefficient blocks, with the last non-zero coefficient anywhere from
\* none to index 63 and zero runs of any length, encoding the blocks in
\* order with encode_coefficients and decoding them in order with
\* decode_coefficients returns the same blocks.
C25_BlocksRoundTrip ==
    (pc = "done") => (res.kind = "Ok" /\ res.blocks = img)

\* A block whose last non-zero coefficient is at index 63 was encoded with
\* the count written as 0, and decoded with only its first coefficient.
C25_LastAt63Cut ==
    /\ pc = "done" /\ res.kind = "Ok"
    /\ img = <<Sparse(0 :> 2 @@ 63 :> 1)>>
    /\ ReadBits(payload, 16, 6) = 0 /\ ReadBit(payload, 22) = 0
    /\ res.blocks = <<Sparse(0 :> 2)>>

\* Every sequence whose blocks have their last non-zero coefficient below
\* index 63 and no -32768 comes back as written.
C25_Below63RoundTrip ==
    (pc = "done" /\ \A k \in 1..Len(img) : img[k][64] = 0 /\ img[k][1] # -32768)
        => (res.kind = "Ok" /\ res.blocks = img)

\* Two blocks, one with a run of 40 zeros and one with values at the limits
\* of i16, came back as written.
C25_LongRunDecoded ==
    /\ pc = "done" /\ res.kind = "Ok"
    /\ img = <<Sparse(40 :> 7), Sparse(0 :> 32767 @@ 1 :> -32767)>>
    /\ res.blocks = img

---------------------------------------------------------------------------
(* SpecContainer: a fresh ChunkWriter is given chunks built by Chunk::new, *)
(* of every type but IEND, is closed with finish, and read_all_chunks      *)
(* reads the bytes.                                                        *)

\* The largest count of chunks written before finish.
MaxWritten == 2

\* The chunk types but End.
BodyTypes == {"IHDR", "ICCP", "EXIF", "XMP", "THUM", "ANIM", "IDAT", "IDLS", "FRMD", "CUST"}

\* The payloads written: none, and the bytes of an end chunk's type.
BodyPayloads == {<<>>, TagIEND}

ContainerInit ==
    /\ pc = "writing"
    /\ enc = WriterNew
    /\ img = NoImage
    /\ payload = <<>>
    /\ stream = <<>>
    /\ res = NoResult
    /\ note = [chunks |-> <<>>]

\* ChunkWriter::write_chunk with a chunk of Chunk::new.
WriteChunk ==
    /\ pc = "writing"
    /\ Len(note.chunks) < MaxWritten
    /\ \E t \in BodyTypes, d \in BodyPayloads :
          /\ enc' = write_chunk(enc, ChunkNew(t, d))
          /\ note' = [chunks |-> Append(note.chunks, ChunkNew(t, d))]
    /\ UNCHANGED <<pc, img, payload, stream, res>>

\* ChunkWriter::finish
Finish ==
    /\ pc = "writing"
    /\ stream' = finish(enc)
    /\ pc' = "finished"
    /\ UNCHANGED <<enc, img, payload, res, note>>

\* ChunkReader::read_all_chunks on the bytes finish returned.
ReadAllChunks ==
    /\ pc = "finished"
    /\ res' = read_all_chunks(stream)
    /\ pc' = "read"
    /\ UNCHANGED <<enc, img, payload, stream, note>>

ContainerNext == WriteChunk \/ Finish \/ ReadAllChunks

SpecContainer == ContainerInit /\ [][ContainerNext]_vars

\* C26: container round trip.  For every sequence of non-IEND chunks
\* written with write_chunk and closed with finish, read_all_chunks on
\* the bytes returns the same chunks (type, payload, CRC) in the same
\* order, followed by one IEND chunk.
C26_ContainerRoundTrip ==
    (pc = "read")
        => /\ res.kind = "Ok"
           /\ res.chunks = Append(note.chunks, ChunkNew("IEND", <<>>))

\* Two chunks, the first with the bytes "IEND" as its payload, were
\* written and read back, and the end chunk read is the third.
C26_EndBytesInPayload ==
    /\ pc = "read" /\ res.kind = "Ok"
    /\ Len(note.chunks) = 2 /\ note.chunks[1].data = TagIEND
    /\ Len(res.chunks) = 3
    /\ res.chunks[1] = note.chunks[1] /\ res.chunks[2] = note.chunks[2]
    /\ res.chunks[3].chunk_type = "IEND"

\* A writer closed before any chunk was written gave the magic and the
\* end chunk, and the reader returned the end chunk alone.
C26_EmptyContainer ==
    /\ pc = "read" /\ note.chunks = <<>>
    /\ Len(stream) = 20
    /\ res.kind = "Ok" /\ Len(res.chunks) = 1

---------------------------------------------------------------------------
(* SpecRle: encode_rle_huffman codes an array of i16 made of zero runs and *)
(* values, and decode_rle_huffman decodes the bytes.                       *)

\* The largest count of pieces (a zero run or a value) in an array.
MaxPieces == 2

\* Zero runs below, at and above the 255 of one pair, and values on both
\* sides of the one-byte limit 127 and at the limits of i16.
RlePieces ==
    {Repeat(0, n) : n \in {1, 255, 256, 600}}
        \cup {<<v>> : v \in {1, -1, 127, -127, 128, -128, 255, -256, 32767, -32767, -32768}}

RECURSIVE Flatten(_, _)
Flatten(pieces, i) == IF i > Len(pieces) THEN <<>> ELSE pieces[i] \o Flatten(pieces, i + 1)

RleArrays == UNION {{Flatten(ps, 1) : ps \in [1..n -> RlePieces]} : n \in 0..MaxPieces}

RleInit ==
    /\ pc = "start"
    /\ enc = ConfigDefault
    /\ img \in RleArrays
    /\ payload = <<>>
    /\ stream = <<>>
    /\ res = NoResult
    /\ note = [rle |-> <<>>]

\* EntropyEncoder::encode_rle_huffman
EncodeRleHuffman ==
    /\ pc = "start"
    /\ payload' = encode_rle_huffman(img)
    /\ note' = [rle |-> RleFrom(img, 1)]
    /\ pc' = "encoded"
    /\ UNCHANGED <<enc, img, stream, res>>

\* EntropyDecoder::decode_rle_huffman
DecodeRleHuffman ==
    /\ pc = "encoded"
    /\ res' = decode_rle_huffman(payload)
    /\ pc' = "done"
    /\ UNCHANGED <<enc, img, payload, stream, note>>

RleNext == EncodeRleHuffman \/ DecodeRleHuffman

SpecRle == RleInit /\ [][RleNext]_vars

\* C27: RLE+Huffman round trip.  For every array d of signed 16-bit
\* values, with zero runs of any length and magnitudes up to the 16-bit
\* limit, decode_rle_huffman(encode_rle_huffman(d)) = d.
C27_RleRoundTrip ==
    (pc = "done") => (res.kind = "Ok" /\ res.data = img)

\* The array [-32768] was coded as the triple (2, 0, 0x80) and decoded
\* as [0].
C27_MinLost ==
    /\ pc = "done" /\ res.kind = "Ok"
    /\ img = <<-32768>>
    /\ note.rle = <<2, 0, 128>>
    /\ res.data = <<0>>

\* Every array without -32768 comes back as written.
C27_RoundTripAboveMin ==
    (pc = "done" /\ \A i \in 1..Len(img) : img[i] # -32768)
        => (res.kind = "Ok" /\ res.data = img)

\* A run of 600 zeros followed by -32767 was coded as three zero pairs and
\* a triple, and came back as written.
C27_LongRunDecoded ==
    /\ pc = "done" /\ res.kind = "Ok"
    /\ img = Repeat(0, 600) \o <<-32767>>
    /\ note.rle = <<0, 255, 0, 255, 0, 90, 2, 255, 255>>
    /\ res.data = img

---------------------------------------------------------------------------
(* SpecTables: compress_lossy_v3 codes a mid-grey raster of one block per  *)
(* channel under adaptive or fixed quantization at every quality, and      *)
(* decompress_lossy_v3 decodes the payload.  note holds, per channel, the  *)
(* table the encoder divided the block by and the table the decoder        *)
(* multiplied it by.                                                       *)

TableConfigs ==
    {[mode |-> "Lossy", quality |-> q, use_optimal_predictor |-> FALSE, use_cabac |-> TRUE,
      use_intra_prediction |-> FALSE, use_adaptive_quant |-> a, use_simd |-> TRUE] :
        q \in 1..100, a \in BOOLEAN}

\* adaptive_quant.get_table(qp, is_chroma) for the block of every channel.
EncTablesV3(cfg, image) ==
    [c \in 1..image.channels |->
        EncTableV3(EncQpV3(cfg, BlockOf(image.data, image.width, image.height, image.channels, c - 1)),
                   IsChroma(c - 1, image.channels))]

\* `table` of decompress_lossy_v3 for the block of every channel from ch
\* on, the sections read from all_data at pos.
RECURSIVE DecTablesV3(_, _, _, _, _)
DecTablesV3(data, all_data, pos, ch_count, ch) ==
    IF ch >= ch_count THEN <<>>
    ELSE With(ReadSections(all_data, pos),
              LAMBDA sec :
                 IF ~sec.ok THEN <<>>
                 ELSE <<TableV3(data, sec.qps, IsChroma(ch, ch_count))>>
                          \o DecTablesV3(data, all_data, sec.next, ch_count, ch + 1))

TablesInit ==
    /\ pc = "start"
    /\ enc \in TableConfigs
    /\ img \in DispatchRasters
    /\ payload = <<>>
    /\ stream = <<>>
    /\ res = NoResult
    /\ note = [enc_tables |-> <<>>, dec_tables |-> <<>>]

\* CompressionEngine::compress_lossy, which takes the v3 path.
CompressTables ==
    /\ pc = "start"
    /\ payload' = compress_lossy(enc, img.data, img.width, img.height, img.channels)
    /\ note' = [note EXCEPT !.enc_tables = EncTablesV3(enc, img)]
    /\ pc' = "compressed"
    /\ UNCHANGED <<enc, img, stream, res>>

\* CompressionEngine::decompress_lossy
DecompressTables ==
    /\ pc = "compressed"
    /\ res' = decompress_lossy(payload, img.width, img.height, img.channels)
    /\ note' = [note EXCEPT !.dec_tables =
                    DecTablesV3(payload, decompress_coefficients(CompressedV3(payload)), 0, img.channels, 0)]
    /\ pc' = "done"
    /\ UNCHANGED <<enc, img, payload, stream>>

TablesNext == CompressTables \/ DecompressTables

SpecTables == TablesInit /\ [][TablesNext]_vars

\* C28: for every block of a v3 lossy stream, in both adaptive and fixed
\* quantization modes, the table the decoder multiplies the coefficients
\* by is the table the encoder divided them by.
C28_TablesAgree ==
    (pc = "done" /\ res.path = "lossy_v3") => (note.dec_tables = note.enc_tables)

\* Under adaptive quantization at quality 50 the encoder divided the luma
\* block by the CSF-weighted table and the decoder multiplied by the plain
\* table of the same QP: the first entries agree, the last do not.
C28_AdaptiveTablesDiffer ==
    /\ pc = "done" /\ res.path = "lossy_v3" /\ res.kind = "Ok"
    /\ enc.use_adaptive_quant /\ enc.quality = 50
    /\ note.enc_tables[1] = with_csf(50, FALSE)
    /\ note.dec_tables[1] = JPEG_LUMA
    /\ note.enc_tables[1][1] = note.dec_tables[1][1]
    /\ note.enc_tables[1][64] > note.dec_tables[1][64]

\* Under fixed quantization the decoder's table is the one of the preamble
\* and, for a quality of 10..98, the encoder's table.
C28_FixedTablesAgree ==
    (pc = "done" /\ ~enc.use_adaptive_quant /\ enc.quality \in 10..98)
        => /\ note.dec_tables = note.enc_tables
           /\ note.dec_tables[1] = TableParse(payload, 3)

\* In adaptive mode the tables agree exactly when the QP is below 10 or
\* above 98, where get_table falls back to the plain table.
C28_AdaptiveAgreeOnlyAtEnds ==
    (pc = "done" /\ enc.use_adaptive_quant)
        => ((note.dec_tables = note.enc_tables) <=> (enc.quality < 10 \/ enc.quality > 98))

---------------------------------------------------------------------------
(* SpecNeighbors: the block loops of compress_lossy_v3 and of              *)
(* decompress_lossy_v3 on one channel of several blocks, block by block in *)
(* raster order.  The encoder takes the neighbours of a block from the     *)
(* padded source plane, the decoder from the padded plane it is            *)
(* rebuilding.  note holds the prediction each side formed for each block. *)

\* CompressionEngine::get_neighbors
get_neighbors(padded, stride, bx, by) ==
    [top |-> [x \in 1..8 |-> IF by > 0 THEN padded[(by * 8 - 1) * stride + bx * 8 + (x - 1) + 1] ELSE 128],
     left |-> [y \in 1..8 |-> IF bx > 0 THEN padded[(by * 8 + (y - 1)) * stride + bx * 8 - 1 + 1] ELSE 128],
     top_left |-> IF bx > 0 /\ by > 0 THEN padded[(by * 8 - 1) * stride + bx * 8 - 1 + 1] ELSE 128]

\* block_width and the stride of the padded plane.
BlockWidth(image) == (image.width + 7) \div 8
PaddedW(image) == BlockWidth(image) * 8

\* The padded plane of channel 0 at the start of the block loop.
PaddedSource(image) ==
    [n \in 1..(PaddedW(image) * 8 * ((image.height + 7) \div 8)) |->
        PaddedAt(image.data, image.width, image.height, image.channels, 0,
                 (n - 1) % PaddedW(image), (n - 1) \div PaddedW(image))]

\* block[y * 8 + x] = padded[(by * 8 + y) * padded_w + bx * 8 + x]
BlockAt(padded, stride, bx, by) ==
    [i \in 1..64 |-> padded[(by * 8 + ((i - 1) \div 8)) * stride + bx * 8 + ((i - 1) % 8) + 1]]

\* The prediction compress_lossy_v3 subtracts from luma block (bx, by).
EncPredAt(cfg, padded, stride, bx, by) ==
    With(get_neighbors(padded, stride, bx, by),
         LAMBDA nb :
            IF cfg.use_intra_prediction
            THEN predict(BlockModeV3(cfg, FALSE, BlockAt(padded, stride, bx, by),
                                     nb.top, nb.left, nb.top_left, bx, by),
                         nb.top, nb.left, nb.top_left)
            ELSE [i \in 1..64 |-> 128])

\* The prediction decompress_lossy_v3 adds to luma block (bx, by).
DecPredAt(use_intra, mode_byte, padded, stride, bx, by) ==
    With(get_neighbors(padded, stride, bx, by),
         LAMBDA nb :
            IF use_intra
            THEN predict(IF mode_byte \in 0..10 THEN mode_byte ELSE IntraDC, nb.top, nb.left, nb.top_left)
            ELSE [i \in 1..64 |-> 128])

\* padded[py * padded_w + px] = val for the samples of block (bx, by).
PutBlock(padded, stride, bx, by, block) ==
    [n \in 1..Len(padded) |->
        IF ((n - 1) % stride) \div 8 = bx /\ ((n - 1) \div stride) \div 8 = by
        THEN block[8 * (((n - 1) \div stride) % 8) + (((n - 1) % stride) % 8) + 1]
        ELSE padded[n]]

\* Qualities whose DC divisor is 32, 16 and 8: the dequantized DC
\* coefficient is then a multiple of 8 and idct_8x8 never rounds a half.
NeighborQualities == {25, 50, 75}

NeighborConfigs ==
    {[mode |-> "Lossy", quality |-> q, use_optimal_predictor |-> FALSE, use_cabac |-> TRUE,
      use_intra_prediction |-> TRUE, use_adaptive_quant |-> TRUE, use_simd |-> TRUE] :
        q \in NeighborQualities}

\* Rasters of two blocks, each of one value, side by side and one above
\* the other, and rasters of four blocks of the same value: the residual of
\* every block is then of one value, where dct_8x8 is exact.
NeighborValues == {0, 60, 128, 131, 200, 255}

NeighborRasters ==
    {QuadRaster(16, 8, 1, <<c, d, c, d>>) : c \in NeighborValues, d \in NeighborValues}
        \cup {QuadRaster(8, 16, 1, <<c, c, d, d>>) : c \in NeighborValues, d \in NeighborValues}
        \cup {QuadRaster(16, 16, 1, <<c, c, c, c>>) : c \in NeighborValues}

NeighborsInit ==
    /\ pc = "encoding"
    /\ enc \in NeighborConfigs
    /\ img \in NeighborRasters
    /\ payload = <<>>
    /\ stream = <<>>
    /\ res = [i \in 1..(PaddedW(img) * 8 * ((img.height + 7) \div 8)) |-> 128]
    /\ note = [modes |-> <<>>, qps |-> <<>>, enc_pred |-> <<>>, dec_pred |-> <<>>]

\* One pass of the block loop of compress_lossy_v3 for block (bx, by) of
\* the padded plane src: the mode and the QP pushed, the prediction
\* subtracted and the scanned coefficients.
EncBlockAt(cfg, src, stride, bx, by) ==
    With(<<BlockAt(src, stride, bx, by), get_neighbors(src, stride, bx, by)>>,
         LAMBDA bn :
            With(<<BlockModeV3(cfg, FALSE, bn[1], bn[2].top, bn[2].left, bn[2].top_left, bx, by),
                   EncQpV3(cfg, bn[1]),
                   EncPredAt(cfg, src, stride, bx, by)>>,
                 LAMBDA mqp :
                    [mode |-> mqp[1], qp |-> mqp[2], pred |-> mqp[3],
                     scanned |-> zigzag_scan(quantize(dct_8x8([i \in 1..64 |-> bn[1][i] - mqp[3][i]]),
                                                      EncTableV3(mqp[2], FALSE)))]))

\* One pass of the block loop of decompress_lossy_v3 under adaptive
\* quantization for block (bx, by): the prediction formed from the padded
\* plane rebuilt so far, and the plane with the block written.
DecBlockAt(use_intra, mode_byte, qp, scanned, padded, stride, bx, by) ==
    With(<<DecPredAt(use_intra, mode_byte, padded, stride, bx, by),
           idct_8x8(Dequantize(zigzag_unscan(scanned), for_quality(qp, FALSE)))>>,
         LAMBDA pb :
            [pred |-> pb[1],
             padded |-> PutBlock(padded, stride, bx, by,
                                 [i \in 1..64 |-> Clamp(pb[1][i] + pb[2][i], 0, 255)])])

\* The block loop of compress_lossy_v3 steps once, the coefficients coded
\* by encode_coefficients.
EncodeBlockV3 ==
    /\ pc = "encoding"
    /\ \E e \in {EncBlockAt(enc, PaddedSource(img), PaddedW(img),
                            Len(note.modes) % BlockWidth(img), Len(note.modes) \div BlockWidth(img))} :
          /\ note' = [note EXCEPT !.modes = Append(@, e.mode), !.qps = Append(@, e.qp),
                                  !.enc_pred = Append(@, e.pred)]
          /\ payload' = payload \o encode_coefficients(e.scanned)
    /\ pc' = IF Len(note.modes) + 1 = BlockCount(img.width, img.height) THEN "decoding" ELSE "encoding"
    /\ UNCHANGED <<enc, img, stream, res>>

\* The block loop of decompress_lossy_v3 steps once; res is the padded
\* plane.
DecodeBlockV3 ==
    /\ pc = "decoding"
    /\ \E d \in {DecBlockAt(enc.use_intra_prediction, note.modes[Len(note.dec_pred) + 1],
                            note.qps[Len(note.dec_pred) + 1],
                            decode_coefficients(payload, 0, Len(note.dec_pred) + 1)[Len(note.dec_pred) + 1],
                            res, PaddedW(img),
                            Len(note.dec_pred) % BlockWidth(img), Len(note.dec_pred) \div BlockWidth(img))} :
          /\ note' = [note EXCEPT !.dec_pred = Append(@, d.pred)]
          /\ res' = d.padded
    /\ pc' = IF Len(note.dec_pred) + 1 = BlockCount(img.width, img.height) THEN "done" ELSE "decoding"
    /\ UNCHANGED <<enc, img, payload, stream>>

NeighborsNext == EncodeBlockV3 \/ DecodeBlockV3

SpecNeighbors == NeighborsInit /\ [][NeighborsNext]_vars

\* C29: for every intra-predicted block, the prediction the decoder forms
\* from the samples it has already rebuilt, in raster order, equals the
\* prediction the encoder subtracted when it computed the block's residual.
C29_PredictionsAgree ==
    \A k \in 1..Len(note.dec_pred) : note.dec_pred[k] = note.enc_pred[k]

\* On a 16x8 raster of the one value 131 at quality 50 the first block was
\* rebuilt as 130; the encoder predicted the second block from the source
\* samples 131 and the decoder from the rebuilt 130.
C29_PredictedFromSource ==
    /\ pc = "done" /\ enc.quality = 50
    /\ img.width = 16 /\ img.height = 8 /\ \A i \in 1..128 : img.data[i] = 131
    /\ note.enc_pred[1] = note.dec_pred[1]
    /\ res[8] = 130
    /\ note.enc_pred[2][1] = 131 /\ note.dec_pred[2][1] = 130

\* The first block of a plane is predicted from mid grey on both sides.
C29_FirstBlockAgrees ==
    (Len(note.dec_pred) >= 1) => (note.dec_pred[1] = note.enc_pred[1])

---------------------------------------------------------------------------
(* SpecWriter: write_magic, write_chunk and write_end are called on one    *)
(* ChunkWriter in any order.  note holds the calls made.                   *)

\* The largest count of calls on the writer.
MaxCalls == 4

\* The chunks given to write_chunk.
WriterChunks == {ChunkNew("IHDR", <<>>), ChunkNew("IDAT", <<1>>)}

WriterInit ==
    /\ pc = "open"
    /\ enc = WriterNew
    /\ img = NoImage
    /\ payload = <<>>
    /\ stream = <<>>
    /\ res = NoResult
    /\ note = [calls |-> <<>>]

CallWriteMagic ==
    /\ Len(note.calls) < MaxCalls
    /\ enc' = write_magic(enc)
    /\ note' = [calls |-> Append(note.calls, "write_magic")]
    /\ UNCHANGED <<pc, img, payload, stream, res>>

CallWriteChunk ==
    /\ Len(note.calls) < MaxCalls
    /\ \E c \in WriterChunks : enc' = write_chunk(enc, c)
    /\ note' = [calls |-> Append(note.calls, "write_chunk")]
    /\ UNCHANGED <<pc, img, payload, stream, res>>

CallWriteEnd ==
    /\ Len(note.calls) < MaxCalls
    /\ enc' = write_end(enc)
    /\ note' = [calls |-> Append(note.calls, "write_end")]
    /\ UNCHANGED <<pc, img, payload, stream, res>>

WriterNext == CallWriteMagic \/ CallWriteChunk \/ CallWriteEnd

SpecWriter == WriterInit /\ [][WriterNext]_vars

\* The offsets (from 1) at which the bytes `what` stand in out.
PlacesOf(what, out) ==
    {p \in 1..(Len(out) - Len(what) + 1) : SubSeq(out, p, p + Len(what) - 1) = what}

\* The end chunk as written: type, size 0 and CRC.
EndChunkBytes == ChunkBytes(ChunkNew("IEND", <<>>))

\* C30: for every sequence of write_magic, write_chunk and write_end calls
\* on one ChunkWriter, the bytes written contain the magic exactly once, as
\* the first 8 bytes, and no chunk follows the first IEND chunk.
C30_WriterInvariant ==
    (enc.out # <<>>)
        => /\ PlacesOf(WK_MAGIC, enc.out) = {1}
           /\ \A p \in PlacesOf(EndChunkBytes, enc.out) : p + Len(EndChunkBytes) - 1 = Len(enc.out)

\* write_end followed by write_chunk: the magic once at the start, the end
\* chunk right after it, and a header chunk after the end chunk.
C30_ChunkAfterEnd ==
    /\ note.calls = <<"write_end", "write_chunk">>
    /\ PlacesOf(WK_MAGIC, enc.out) = {1}
    /\ PlacesOf(EndChunkBytes, enc.out) = {9}
    /\ SubSeq(enc.out, 21, 24) = TagIHDR
    /\ Len(enc.out) = 32

\* write_chunk followed by write_magic: the magic stands twice, at the
\* start and after the chunk.
C30_MagicTwice ==
    /\ note.calls = <<"write_chunk", "write_magic">>
    /\ Cardinality(PlacesOf(WK_MAGIC, enc.out)) = 2

\* With write_magic called first or not at all, and nothing called after
\* the first write_end, the magic stands once at the start and the end
\* chunk is last.
C30_EncoderOrderKept ==
    ((\A i \in 2..Len(note.calls) : note.calls[i] # "write_magic" /\ note.calls[i - 1] # "write_end")
      /\ enc.out # <<>>)
        => /\ PlacesOf(WK_MAGIC, enc.out) = {1}
           /\ \A p \in PlacesOf(EndChunkBytes, enc.out) : p + Len(EndChunkBytes) - 1 = Len(enc.out)

=============================================================================
